---- MODULE Spec2Model ----
(***************************************************************************)
(* Model of claude_gui.py: the configuration form of ClaudeGUI, the        *)
(* command builder _build_command, the display quoter _quote_arg with the  *)
(* preview string, and the launcher _launch_claude / _launch_claude_unix.  *)
(*                                                                         *)
(* A Python str is modelled as a sequence of one-character strings, so     *)
(* that strip(), quoting and joining are computed character by character.  *)
(* An argument vector is a sequence of such strings.                       *)
(***************************************************************************)
EXTENDS Integers, Sequences, FiniteSets, TLC

\* ------------------------------------------------------------------------
\* String literals of the source.
\* ------------------------------------------------------------------------
Flag_model == <<"-","-","m","o","d","e","l">>
Flag_fallback_model == <<"-","-","f","a","l","l","b","a","c","k","-","m","o","d","e","l">>
Flag_c == <<"-","c">>
Flag_r == <<"-","r">>
Flag_fork_session == <<"-","-","f","o","r","k","-","s","e","s","s","i","o","n">>
Flag_session_id == <<"-","-","s","e","s","s","i","o","n","-","i","d">>
Flag_agent == <<"-","-","a","g","e","n","t">>
Flag_agents == <<"-","-","a","g","e","n","t","s">>
Flag_tools == <<"-","-","t","o","o","l","s">>
Flag_allowedTools == <<"-","-","a","l","l","o","w","e","d","T","o","o","l","s">>
Flag_disallowedTools == <<"-","-","d","i","s","a","l","l","o","w","e","d","T","o","o","l","s">>
Flag_disable_slash_commands == <<"-","-","d","i","s","a","b","l","e","-","s","l","a","s","h","-","c","o","m","m","a","n","d","s">>
Flag_system_prompt == <<"-","-","s","y","s","t","e","m","-","p","r","o","m","p","t">>
Flag_append_system_prompt == <<"-","-","a","p","p","e","n","d","-","s","y","s","t","e","m","-","p","r","o","m","p","t">>
Flag_p == <<"-","p">>
Flag_input_format == <<"-","-","i","n","p","u","t","-","f","o","r","m","a","t">>
Flag_output_format == <<"-","-","o","u","t","p","u","t","-","f","o","r","m","a","t">>
Flag_json_schema == <<"-","-","j","s","o","n","-","s","c","h","e","m","a">>
Flag_include_partial_messages == <<"-","-","i","n","c","l","u","d","e","-","p","a","r","t","i","a","l","-","m","e","s","s","a","g","e","s">>
Flag_replay_user_messages == <<"-","-","r","e","p","l","a","y","-","u","s","e","r","-","m","e","s","s","a","g","e","s">>
Flag_mcp_config == <<"-","-","m","c","p","-","c","o","n","f","i","g">>
Flag_strict_mcp_config == <<"-","-","s","t","r","i","c","t","-","m","c","p","-","c","o","n","f","i","g">>
Flag_plugin_dir == <<"-","-","p","l","u","g","i","n","-","d","i","r">>
Flag_permission_mode == <<"-","-","p","e","r","m","i","s","s","i","o","n","-","m","o","d","e">>
Flag_allow_dangerously_skip_permissions == <<"-","-","a","l","l","o","w","-","d","a","n","g","e","r","o","u","s","l","y","-","s","k","i","p","-","p","e","r","m","i","s","s","i","o","n","s">>
Flag_dangerously_skip_permissions == <<"-","-","d","a","n","g","e","r","o","u","s","l","y","-","s","k","i","p","-","p","e","r","m","i","s","s","i","o","n","s">>
Flag_add_dir == <<"-","-","a","d","d","-","d","i","r">>
Flag_file == <<"-","-","f","i","l","e">>
Flag_max_budget_usd == <<"-","-","m","a","x","-","b","u","d","g","e","t","-","u","s","d">>
Flag_debug == <<"-","-","d","e","b","u","g">>
Flag_debug_file == <<"-","-","d","e","b","u","g","-","f","i","l","e">>
Flag_verbose == <<"-","-","v","e","r","b","o","s","e">>
Flag_chrome == <<"-","-","c","h","r","o","m","e">>
Flag_no_chrome == <<"-","-","n","o","-","c","h","r","o","m","e">>
Flag_ide == <<"-","-","i","d","e">>
Flag_settings == <<"-","-","s","e","t","t","i","n","g","s">>
Flag_setting_sources == <<"-","-","s","e","t","t","i","n","g","-","s","o","u","r","c","e","s">>
Flag_betas == <<"-","-","b","e","t","a","s">>
Flag_no_session_persistence == <<"-","-","n","o","-","s","e","s","s","i","o","n","-","p","e","r","s","i","s","t","e","n","c","e">>
S_claude == <<"c","l","a","u","d","e">>
S_opus == <<"o","p","u","s">>
S_text == <<"t","e","x","t">>
S_default == <<"d","e","f","a","u","l","t">>
S_stream_json == <<"s","t","r","e","a","m","-","j","s","o","n">>
S_json == <<"j","s","o","n">>
S_acceptEdits == <<"a","c","c","e","p","t","E","d","i","t","s">>
S_bypassPermissions == <<"b","y","p","a","s","s","P","e","r","m","i","s","s","i","o","n","s">>
S_delegate == <<"d","e","l","e","g","a","t","e">>
S_dontAsk == <<"d","o","n","t","A","s","k">>
S_plan == <<"p","l","a","n">>
S_enabled == <<"e","n","a","b","l","e","d">>
S_disabled == <<"d","i","s","a","b","l","e","d">>
S_user == <<"u","s","e","r">>
S_project == <<"p","r","o","j","e","c","t">>
S_local == <<"l","o","c","a","l">>
S_sonnet == <<"s","o","n","n","e","t">>
S_comma == <<",">>
S_space == <<" ">>

\* Values typed into entries and paths returned by the file dialogs.
S_hello == <<"h","e","l","l","o">>
S_its_a == <<"i","t","'","s"," ","a">>
S_dashp == <<"-","p">>
P1 == <<"/","a">>
P2 == <<"/","b"," ","c">>
P3 == <<"/","c">>
S_usr_claude == <<"/","u","s","r","/","l","o","c","a","l","/","b","i","n","/","c","l","a","u","d","e">>
S_home == <<"/","h","o","m","e","/","u">>

\* ------------------------------------------------------------------------
\* Python str operations.
\* ------------------------------------------------------------------------
\* str.strip() with no argument removes leading and trailing whitespace.
IsSpace(c) == c \in {" ", "\t", "\n", "\r"}

RECURSIVE LStrip(_)
LStrip(s) == IF s # <<>> /\ IsSpace(Head(s)) THEN LStrip(Tail(s)) ELSE s

RECURSIVE RStrip(_)
RStrip(s) ==
    IF s # <<>> /\ IsSpace(s[Len(s)]) THEN RStrip(SubSeq(s, 1, Len(s) - 1)) ELSE s

Strip(s) == RStrip(LStrip(s))

\* sep.join(parts)
RECURSIVE Join(_, _)
Join(sep, parts) ==
    IF parts = <<>> THEN <<>>
    ELSE IF Len(parts) = 1 THEN parts[1]
    ELSE parts[1] \o sep \o Join(sep, Tail(parts))

\* s.replace(c, by) for a one-character c
RECURSIVE Replace(_, _, _)
Replace(s, c, by) ==
    IF s = <<>> THEN <<>>
    ELSE (IF Head(s) = c THEN by ELSE <<Head(s)>>) \o Replace(Tail(s), c, by)

Chars(s) == {s[i] : i \in 1..Len(s)}

\* Text.get("1.0", tk.END): the widget's content followed by the newline Tk
\* keeps at the end of every Text widget.
TextGet(content) == content \o <<"\n">>

\* ------------------------------------------------------------------------
\* _build_command (lines 730-900).  Each helper is one statement shape of
\* the builder; each returns the tokens the statement appends to cmd.
\* ------------------------------------------------------------------------
\* Mutant: the emptiness test of a value field is lost.
IfSet_Always(value, flag) == <<flag, value>>

\* if var.get(): cmd.extend([flag, var.get()])
IfSet(value, flag) == IF value # <<>> THEN <<flag, value>> ELSE <<>>

\* if var.get(): cmd.append(flag)
IfTrue(b, flag) == IF b THEN <<flag>> ELSE <<>>

\* x = widget.get("1.0", tk.END).strip(); if x: cmd.extend([flag, x])
IfText(content, flag) ==
    LET x == Strip(TextGet(content))
    IN  IF x # <<>> THEN <<flag, x>> ELSE <<>>

\* Mutant: the comparison with the default is lost.
IfNotDefault_Always(value, default, flag) == <<flag, value>>

\* if var.get() != default: cmd.extend([flag, var.get()])
IfNotDefault(value, default, flag) ==
    IF value # default THEN <<flag, value>> ELSE <<>>

\* Mutant: one flag for the whole list instead of one per entry.
ForEachDir_OneFlag(dirs, flag) == IF dirs = <<>> THEN <<>> ELSE <<flag>> \o dirs

\* for d in dirs: cmd.extend([flag, d])
RECURSIVE ForEachDir(_, _)
ForEachDir(dirs, flag) ==
    IF dirs = <<>> THEN <<>>
    ELSE <<flag, Head(dirs)>> \o ForEachDir(Tail(dirs), flag)

\* if chrome == "enabled": --chrome  elif chrome == "disabled": --no-chrome
ChromeArgs(chrome) ==
    IF chrome = S_enabled THEN <<Flag_chrome>>
    ELSE IF chrome = S_disabled THEN <<Flag_no_chrome>>
    ELSE <<>>

\* sources = [...]; if sources: cmd.extend(["--setting-sources", ",".join(sources)])
SettingSourcesArgs(user, project, local) ==
    LET sources == (IF user THEN <<S_user>> ELSE <<>>)
                   \o (IF project THEN <<S_project>> ELSE <<>>)
                   \o (IF local THEN <<S_local>> ELSE <<>>)
    IN  IF sources # <<>> THEN <<Flag_setting_sources, Join(S_comma, sources)>>
        ELSE <<>>

\* if self.prompt_var.get(): cmd.append(self.prompt_var.get())
PromptArg(prompt) == IF prompt # <<>> THEN <<prompt>> ELSE <<>>

\* claude_path = self.claude_path_var.get() or "claude"
ClaudePath(v) == IF v.claude_path_var # <<>> THEN v.claude_path_var ELSE S_claude

\* The flags between the executable and the prompt, in the order of the code.
\* v: the Tk variables, t: the Text widgets' contents.
OptionArgs(v, t, pdirs, adirs) ==
       IfSet(v.model_var, Flag_model)
    \o IfSet(v.fallback_model_var, Flag_fallback_model)
    \o IfTrue(v.continue_var, Flag_c)
    \o IfSet(v.resume_var, Flag_r)
    \o IfTrue(v.fork_session_var, Flag_fork_session)
    \o IfSet(v.session_id_var, Flag_session_id)
    \o IfSet(v.agent_var, Flag_agent)
    \o IfText(t.agents_json_text, Flag_agents)
    \o IfText(t.tools_text, Flag_tools)
    \o IfSet(v.allowed_tools_var, Flag_allowedTools)
    \o IfSet(v.disallowed_tools_var, Flag_disallowedTools)
    \o IfTrue(v.disable_slash_commands_var, Flag_disable_slash_commands)
    \o IfText(t.system_prompt_text, Flag_system_prompt)
    \o IfText(t.append_prompt_text, Flag_append_system_prompt)
    \o IfTrue(v.print_mode_var, Flag_p)
    \o IfNotDefault(v.input_format_var, S_text, Flag_input_format)
    \o IfNotDefault(v.output_format_var, S_text, Flag_output_format)
    \o IfText(t.json_schema_text, Flag_json_schema)
    \o IfTrue(v.include_partial_var, Flag_include_partial_messages)
    \o IfTrue(v.replay_user_var, Flag_replay_user_messages)
    \o IfSet(v.mcp_config_var, Flag_mcp_config)
    \o IfTrue(v.strict_mcp_var, Flag_strict_mcp_config)
    \o ForEachDir(pdirs, Flag_plugin_dir)
    \o IfNotDefault(v.permission_mode_var, S_default, Flag_permission_mode)
    \o IfTrue(v.allow_skip_perms_var, Flag_allow_dangerously_skip_permissions)
    \o IfTrue(v.skip_perms_var, Flag_dangerously_skip_permissions)
    \o ForEachDir(adirs, Flag_add_dir)
    \o IfSet(v.file_specs_var, Flag_file)
    \o IfSet(v.max_budget_var, Flag_max_budget_usd)
    \o IfSet(v.debug_var, Flag_debug)
    \o IfSet(v.debug_file_var, Flag_debug_file)
    \o IfTrue(v.verbose_var, Flag_verbose)
    \o ChromeArgs(v.chrome_var)
    \o IfTrue(v.ide_var, Flag_ide)
    \o IfSet(v.settings_var, Flag_settings)
    \o SettingSourcesArgs(v.setting_user_var, v.setting_project_var, v.setting_local_var)
    \o IfSet(v.betas_var, Flag_betas)
    \o IfTrue(v.no_session_persistence_var, Flag_no_session_persistence)

\* Mutant: the prompt is appended right after the executable.
BuildCommand_PromptFirst(v, t, pdirs, adirs) ==
    <<ClaudePath(v)>> \o PromptArg(v.prompt_var) \o OptionArgs(v, t, pdirs, adirs)

\* Mutant: the print-mode statement is moved to the top of the builder.
BuildCommand_PrintModeFirst(v, t, pdirs, adirs) ==
    <<ClaudePath(v)>> \o IfTrue(v.print_mode_var, Flag_p)
    \o OptionArgs([v EXCEPT !.print_mode_var = FALSE], t, pdirs, adirs)
    \o PromptArg(v.prompt_var)

BuildCommand(v, t, pdirs, adirs) ==
    <<ClaudePath(v)>> \o OptionArgs(v, t, pdirs, adirs) \o PromptArg(v.prompt_var)

\* ------------------------------------------------------------------------
\* _quote_arg (lines 717-728) and _get_command_string (lines 902-909).
\* ------------------------------------------------------------------------
Letters ==
    {"a","b","c","d","e","f","g","h","i","j","k","l","m","n","o","p","q","r","s",
     "t","u","v","w","x","y","z","A","B","C","D","E","F","G","H","I","J","K","L",
     "M","N","O","P","Q","R","S","T","U","V","W","X","Y","Z"}
Digits == {"0","1","2","3","4","5","6","7","8","9"}

\* shlex.quote: the characters outside [\w@%+=:,./-] make a string unsafe.
ShlexSafeChars == Letters \cup Digits \cup {"_","@","%","+","=",":",",",".","/","-"}

SQ_escape == <<"'","\"","'","\"","'">>

\* shlex.quote(s): '' for the empty string, s itself when every character is
\* safe, and otherwise s in single quotes with each ' written as '"'"'.
ShlexQuote(s) ==
    IF s = <<>> THEN <<"'","'">>
    ELSE IF Chars(s) \subseteq ShlexSafeChars THEN s
    ELSE <<"'">> \o Replace(s, "'", SQ_escape) \o <<"'">>

WinMeta == {" ", "\"", "\t", "\n", "&", "|", "<", ">", "^"}

\* A win32 rule that wraps without escaping the embedded double quotes.
QuoteArg_NoEscape(arg, plat) ==
    IF arg = <<>> THEN (IF plat = "win32" THEN <<"\"","\"">> ELSE <<"'","'">>)
    ELSE IF plat = "win32" THEN
        IF Chars(arg) \cap WinMeta # {} THEN <<"\"">> \o arg \o <<"\"">> ELSE arg
    ELSE ShlexQuote(arg)

QuoteArg(arg, plat) ==
    IF arg = <<>> THEN (IF plat = "win32" THEN <<"\"","\"">> ELSE <<"'","'">>)
    ELSE IF plat = "win32" THEN
        IF Chars(arg) \cap WinMeta # {}
        THEN <<"\"">> \o Replace(arg, "\"", <<"\\","\"">>) \o <<"\"">>
        ELSE arg
    ELSE ShlexQuote(arg)

GetCommandString(c, plat) ==
    Join(S_space, [i \in 1..Len(c) |-> QuoteArg(c[i], plat)])

\* ------------------------------------------------------------------------
\* State.
\* ------------------------------------------------------------------------
VARIABLES
    platform,          \* sys.platform of the host
    tkvars,            \* the StringVar and BooleanVar objects of _init_variables
    texts,             \* the contents of the five Text widgets
    plugin_dirs,       \* self.plugin_dirs
    plugin_listbox,    \* the rows shown by self.plugin_listbox
    add_dirs,          \* self.add_dirs
    add_dir_listbox,   \* the rows shown by self.add_dir_listbox
    cmd,               \* the vector returned by the latest _build_command call
    command_preview,   \* the text shown in self.command_preview
    clipboard,         \* the clipboard as left by _copy_command
    edits,             \* number of form handlers run so far
    launches,          \* number of times the Launch button was pressed
    calls,             \* OS calls made by the latest _launch_claude, in order
    dialogs,           \* message boxes shown by the latest _launch_claude
    script_exists,     \* the staged script of the latest launch is on disk
    script_content,    \* what the latest launch wrote into its script
    fd_open,           \* the descriptor returned by mkstemp is still open
    script_trace,      \* the commands sh ran for the staged script, with their status
    token,               \* the argument handed to _quote_arg
    quoted             \* what _quote_arg returned for it (<<>> before the call)

formVars == <<tkvars, texts, plugin_dirs, plugin_listbox, add_dirs, add_dir_listbox>>
launchVars == <<launches, calls, dialogs, script_exists, script_content, fd_open,
                script_trace>>
quoteVars == <<token, quoted>>
vars == <<platform, tkvars, texts, plugin_dirs, plugin_listbox, add_dirs,
          add_dir_listbox, cmd, command_preview, clipboard, edits, launches,
          calls, dialogs, script_exists, script_content, fd_open, script_trace,
          token, quoted>>

\* ------------------------------------------------------------------------
\* Bounds and input sets.
\* ------------------------------------------------------------------------
\* Form handlers run after the initial state.
MaxEdits == 1
\* Presses of the Launch button.
MaxLaunches == 1

Platforms == {"win32", "darwin", "linux"}

\* What _find_claude_path returns: a located executable, or "claude".
FoundPaths == {S_claude, S_usr_claude}
\* What _get_safe_working_dir returns.
SafeDirs == {S_home}
\* What the user types into an Entry.
EntryVals == {<<>>, S_hello, S_dashp}
\* What the user types into the working directory Entry.
WorkingDirVals == {<<>>, <<" ">>, P2}
\* What the user types into a Text widget.
T_blank == <<" ","\n">>
T_padded == <<" ","{","}","\n">>
T_quotes == <<"\"","\"">>
T_two_lines == <<"a","\n","b">>
TextVals == {<<>>, T_blank, T_padded, T_quotes}
\* What a file or directory dialog returns; the empty string when cancelled.
DialogPaths == {<<>>, P1, P2, P3}

ReadonlyCombos ==
    {"input_format_var", "output_format_var", "permission_mode_var", "chrome_var"}
EntryVarNames ==
    {"claude_path_var", "working_dir_var", "prompt_var", "model_var",
     "fallback_model_var", "resume_var", "session_id_var", "agent_var",
     "allowed_tools_var", "disallowed_tools_var", "mcp_config_var",
     "file_specs_var", "max_budget_var", "debug_var", "debug_file_var",
     "settings_var", "betas_var"}
BooleanVarNames ==
    {"continue_var", "fork_session_var", "disable_slash_commands_var",
     "print_mode_var", "include_partial_var", "replay_user_var",
     "strict_mcp_var", "allow_skip_perms_var", "skip_perms_var", "verbose_var",
     "ide_var", "setting_user_var", "setting_project_var", "setting_local_var",
     "no_session_persistence_var"}
TextNames ==
    {"agents_json_text", "tools_text", "system_prompt_text",
     "append_prompt_text", "json_schema_text"}
BrowseVarNames ==
    {"claude_path_var", "working_dir_var", "mcp_config_var", "debug_file_var",
     "settings_var"}

\* The values= list of each Combobox.
ComboValues(var) ==
    CASE var = "input_format_var" -> {S_text, S_stream_json}
      [] var = "output_format_var" -> {S_text, S_json, S_stream_json}
      [] var = "permission_mode_var" ->
            {S_default, S_acceptEdits, S_bypassPermissions, S_delegate,
             S_dontAsk, S_plan}
      [] var = "chrome_var" -> {S_default, S_enabled, S_disabled}
      [] var = "model_var" -> {<<>>, S_sonnet, S_opus}

\* ------------------------------------------------------------------------
\* _init_variables (lines 81-138) and the widgets as created.
\* ------------------------------------------------------------------------
InitTkvars(found, safe) ==
    [claude_path_var |-> found, working_dir_var |-> safe,
     prompt_var |-> <<>>, model_var |-> S_opus, fallback_model_var |-> <<>>,
     continue_var |-> FALSE, resume_var |-> <<>>, fork_session_var |-> FALSE,
     session_id_var |-> <<>>, agent_var |-> <<>>,
     allowed_tools_var |-> <<>>, disallowed_tools_var |-> <<>>,
     disable_slash_commands_var |-> FALSE,
     print_mode_var |-> FALSE, input_format_var |-> S_text,
     output_format_var |-> S_text, include_partial_var |-> FALSE,
     replay_user_var |-> FALSE,
     mcp_config_var |-> <<>>, strict_mcp_var |-> FALSE,
     permission_mode_var |-> S_default, allow_skip_perms_var |-> FALSE,
     skip_perms_var |-> FALSE, file_specs_var |-> <<>>,
     max_budget_var |-> <<>>, debug_var |-> <<>>, debug_file_var |-> <<>>,
     verbose_var |-> FALSE, chrome_var |-> S_default, ide_var |-> FALSE,
     settings_var |-> <<>>, setting_user_var |-> FALSE,
     setting_project_var |-> FALSE, setting_local_var |-> FALSE,
     betas_var |-> <<>>, no_session_persistence_var |-> FALSE]

InitTexts == [w \in TextNames |-> <<>>]

\* A session in which the user has filled in every field of the form.
PopulatedTkvars(found, safe) ==
    [n \in DOMAIN InitTkvars(found, safe) |->
        CASE n = "claude_path_var" -> found
          [] n = "working_dir_var" -> safe
          [] n = "model_var" -> S_opus
          [] n = "input_format_var" -> S_stream_json
          [] n = "output_format_var" -> S_json
          [] n = "permission_mode_var" -> S_plan
          [] n = "chrome_var" -> S_enabled
          [] n \in BooleanVarNames -> TRUE
          [] OTHER -> S_hello]

PopulatedTexts == [w \in TextNames |-> T_padded]

\* The configuration of the specification's Scenario B on top of the defaults.
ScenarioBTkvars(found, safe) ==
    [InitTkvars(found, safe) EXCEPT
        !.continue_var = TRUE, !.resume_var = S_hello,
        !.print_mode_var = TRUE, !.output_format_var = S_json]

\* _update_command_preview (lines 911-917) on the form as it will be.
UpdateCommandPreview(v, t, pdirs, adirs) ==
    LET c == BuildCommand(v, t, pdirs, adirs)
    IN  /\ cmd' = c
        /\ command_preview' = GetCommandString(c, platform)

NoLaunch ==
    /\ token = <<>>
    /\ quoted = <<>>
    /\ launches = 0
    /\ calls = <<>>
    /\ dialogs = <<>>
    /\ script_exists = FALSE
    /\ script_content = <<>>
    /\ fd_open = FALSE
    /\ script_trace = <<>>

Init ==
    /\ platform \in Platforms
    /\ \E found \in FoundPaths, safe \in SafeDirs :
        \/ /\ tkvars = InitTkvars(found, safe)
           /\ texts = InitTexts
           /\ plugin_dirs = <<>>
           /\ add_dirs = <<>>
        \/ /\ tkvars = ScenarioBTkvars(found, safe)
           /\ texts = InitTexts
           /\ plugin_dirs = <<>>
           /\ add_dirs = <<>>
        \/ /\ tkvars = PopulatedTkvars(found, safe)
           /\ texts = PopulatedTexts
           /\ plugin_dirs = <<P1, P2>>
           /\ add_dirs = <<P2, P1>>
    /\ plugin_listbox = plugin_dirs
    /\ add_dir_listbox = add_dirs
    /\ cmd = BuildCommand(tkvars, texts, plugin_dirs, add_dirs)
    /\ command_preview = GetCommandString(cmd, platform)
    /\ clipboard = <<>>
    /\ edits = 0
    /\ NoLaunch

\* ------------------------------------------------------------------------
\* Form handlers.  Every handler that changes a field ends with
\* _update_command_preview.
\* ------------------------------------------------------------------------
Ran == edits' = edits + 1

\* <KeyRelease> on an Entry (or on the editable model Combobox): the bound
\* StringVar holds what was typed.
KeyRelease(var, val) ==
    /\ edits < MaxEdits
    /\ tkvars' = [tkvars EXCEPT ![var] = val]
    /\ UpdateCommandPreview(tkvars', texts, plugin_dirs, add_dirs)
    /\ Ran
    /\ UNCHANGED <<platform, texts, plugin_dirs, plugin_listbox, add_dirs,
                   add_dir_listbox, clipboard, launchVars, quoteVars>>

\* A Checkbutton toggles its BooleanVar and runs its command.
Checkbutton(var) ==
    /\ edits < MaxEdits
    /\ tkvars' = [tkvars EXCEPT ![var] = ~tkvars[var]]
    /\ UpdateCommandPreview(tkvars', texts, plugin_dirs, add_dirs)
    /\ Ran
    /\ UNCHANGED <<platform, texts, plugin_dirs, plugin_listbox, add_dirs,
                   add_dir_listbox, clipboard, launchVars, quoteVars>>

\* <<ComboboxSelected>>: the StringVar holds the chosen entry of values=.
ComboboxSelected(var, val) ==
    /\ edits < MaxEdits
    /\ val \in ComboValues(var)
    /\ tkvars' = [tkvars EXCEPT ![var] = val]
    /\ UpdateCommandPreview(tkvars', texts, plugin_dirs, add_dirs)
    /\ Ran
    /\ UNCHANGED <<platform, texts, plugin_dirs, plugin_listbox, add_dirs,
                   add_dir_listbox, clipboard, launchVars, quoteVars>>

\* <KeyRelease> on a Text widget.
TextKeyRelease(w, val) ==
    /\ edits < MaxEdits
    /\ texts' = [texts EXCEPT ![w] = val]
    /\ UpdateCommandPreview(tkvars, texts', plugin_dirs, add_dirs)
    /\ Ran
    /\ UNCHANGED <<platform, tkvars, plugin_dirs, plugin_listbox, add_dirs,
                   add_dir_listbox, clipboard, launchVars, quoteVars>>

\* _browse_claude_path, _browse_working_dir, _browse_mcp_config,
\* _browse_debug_file, _browse_settings: if path: var.set(path); update.
Browse(var, path) ==
    /\ edits < MaxEdits
    /\ IF path # <<>>
       THEN /\ tkvars' = [tkvars EXCEPT ![var] = path]
            /\ UpdateCommandPreview(tkvars', texts, plugin_dirs, add_dirs)
       ELSE UNCHANGED <<tkvars, cmd, command_preview>>
    /\ Ran
    /\ UNCHANGED <<platform, texts, plugin_dirs, plugin_listbox, add_dirs,
                   add_dir_listbox, clipboard, launchVars, quoteVars>>

\* _autodetect_claude_path (lines 203-216).
AutodetectClaudePath(found) ==
    /\ edits < MaxEdits
    /\ tkvars' = [tkvars EXCEPT !.claude_path_var = found]
    /\ UpdateCommandPreview(tkvars', texts, plugin_dirs, add_dirs)
    /\ Ran
    /\ UNCHANGED <<platform, texts, plugin_dirs, plugin_listbox, add_dirs,
                   add_dir_listbox, clipboard, launchVars, quoteVars>>

\* A membership test that never finds the path.
Contains_Never(dirs, path) == FALSE

\* path in dirs
Contains(dirs, path) == \E i \in 1..Len(dirs) : dirs[i] = path

\* del dirs[idx] / listbox.delete(idx), idx counted from 1 here
DeleteAt(dirs, idx) ==
    SubSeq(dirs, 1, idx - 1) \o SubSeq(dirs, idx + 1, Len(dirs))

\* _add_plugin_dir (lines 466-472).
AddPluginDir(path) ==
    /\ edits < MaxEdits
    /\ IF path # <<>> /\ ~Contains(plugin_dirs, path)
       THEN /\ plugin_dirs' = Append(plugin_dirs, path)
            /\ plugin_listbox' = Append(plugin_listbox, path)
            /\ UpdateCommandPreview(tkvars, texts, plugin_dirs', add_dirs)
       ELSE UNCHANGED <<plugin_dirs, plugin_listbox, cmd, command_preview>>
    /\ Ran
    /\ UNCHANGED <<platform, tkvars, texts, add_dirs, add_dir_listbox,
                   clipboard, launchVars, quoteVars>>

\* _remove_plugin_dir (lines 474-481); idx = selection[0], 0 for no selection.
RemovePluginDir(idx) ==
    /\ edits < MaxEdits
    /\ idx \in 0..Len(plugin_listbox)
    /\ IF idx # 0
       THEN /\ plugin_listbox' = DeleteAt(plugin_listbox, idx)
            /\ plugin_dirs' = DeleteAt(plugin_dirs, idx)
            /\ UpdateCommandPreview(tkvars, texts, plugin_dirs', add_dirs)
       ELSE UNCHANGED <<plugin_dirs, plugin_listbox, cmd, command_preview>>
    /\ Ran
    /\ UNCHANGED <<platform, tkvars, texts, add_dirs, add_dir_listbox,
                   clipboard, launchVars, quoteVars>>

\* _add_directory (lines 664-670).
AddDirectory(path) ==
    /\ edits < MaxEdits
    /\ IF path # <<>> /\ ~Contains(add_dirs, path)
       THEN /\ add_dirs' = Append(add_dirs, path)
            /\ add_dir_listbox' = Append(add_dir_listbox, path)
            /\ UpdateCommandPreview(tkvars, texts, plugin_dirs, add_dirs')
       ELSE UNCHANGED <<add_dirs, add_dir_listbox, cmd, command_preview>>
    /\ Ran
    /\ UNCHANGED <<platform, tkvars, texts, plugin_dirs, plugin_listbox,
                   clipboard, launchVars, quoteVars>>

\* _remove_directory (lines 672-679).
RemoveDirectory(idx) ==
    /\ edits < MaxEdits
    /\ idx \in 0..Len(add_dir_listbox)
    /\ IF idx # 0
       THEN /\ add_dir_listbox' = DeleteAt(add_dir_listbox, idx)
            /\ add_dirs' = DeleteAt(add_dirs, idx)
            /\ UpdateCommandPreview(tkvars, texts, plugin_dirs, add_dirs')
       ELSE UNCHANGED <<add_dirs, add_dir_listbox, cmd, command_preview>>
    /\ Ran
    /\ UNCHANGED <<platform, tkvars, texts, plugin_dirs, plugin_listbox,
                   clipboard, launchVars, quoteVars>>

\* _reset_all (lines 1013-1065); yes is the answer to the confirmation.
ResetAll(yes, found, safe) ==
    /\ edits < MaxEdits
    /\ IF yes
       THEN /\ tkvars' = InitTkvars(found, safe)
            /\ texts' = InitTexts
            /\ plugin_dirs' = <<>>
            /\ plugin_listbox' = <<>>
            /\ add_dirs' = <<>>
            /\ add_dir_listbox' = <<>>
            /\ UpdateCommandPreview(tkvars', texts', plugin_dirs', add_dirs')
       ELSE UNCHANGED <<formVars, cmd, command_preview>>
    /\ Ran
    /\ UNCHANGED <<platform, clipboard, launchVars, quoteVars>>

\* Mutant: building the command consumes the plugin directory list.
CopyCommand_Drains ==
    /\ edits < MaxEdits
    /\ LET c == BuildCommand(tkvars, texts, plugin_dirs, add_dirs)
       IN  /\ cmd' = c
           /\ clipboard' = GetCommandString(c, platform)
    /\ plugin_dirs' = <<>>
    /\ edits' = edits + 1
    /\ UNCHANGED <<platform, tkvars, texts, plugin_listbox, add_dirs,
                   add_dir_listbox, command_preview, launchVars, quoteVars>>

\* _copy_command (lines 919-924): builds the command again and puts its
\* display string on the clipboard.
CopyCommand ==
    /\ edits < MaxEdits
    /\ LET c == BuildCommand(tkvars, texts, plugin_dirs, add_dirs)
       IN  /\ cmd' = c
           /\ clipboard' = GetCommandString(c, platform)
    /\ Ran
    /\ UNCHANGED <<platform, formVars, command_preview, launchVars, quoteVars>>

Next ==
    \/ \E var \in EntryVarNames, val \in EntryVals : KeyRelease(var, val)
    \/ \E var \in BooleanVarNames : Checkbutton(var)
    \/ \E var \in ReadonlyCombos \cup {"model_var"} :
          \E val \in ComboValues(var) : ComboboxSelected(var, val)
    \/ \E w \in TextNames, val \in TextVals : TextKeyRelease(w, val)
    \/ \E var \in BrowseVarNames, path \in DialogPaths : Browse(var, path)
    \/ \E found \in FoundPaths : AutodetectClaudePath(found)
    \/ \E path \in DialogPaths : AddPluginDir(path)
    \/ \E idx \in 0..Len(plugin_listbox) : RemovePluginDir(idx)
    \/ \E path \in DialogPaths : AddDirectory(path)
    \/ \E idx \in 0..Len(add_dir_listbox) : RemoveDirectory(idx)
    \/ \E yes \in BOOLEAN, found \in FoundPaths, safe \in SafeDirs :
          ResetAll(yes, found, safe)
    \/ CopyCommand

Spec == Init /\ [][Next]_vars

\* ------------------------------------------------------------------------
\* The launcher: _launch_claude (lines 926-954) and _launch_claude_unix
\* (lines 956-1011).
\* ------------------------------------------------------------------------
\* The path mkstemp(suffix=".sh", prefix="claude_gui_") returns.
S_script_path == <<"/","t","m","p","/","c","l","a","u","d","e","_","g","u","i","_","1",".","s","h">>

L_osascript == <<"o","s","a","s","c","r","i","p","t">>
L_tell == <<"t","e","l","l"," ","a","p","p","l","i","c","a","t","i","o","n"," ","\"","T","e","r","m","i","n","a","l","\""," ","t","o"," ","d","o"," ","s","c","r","i","p","t"," ","\"","s","h"," ">>
L_x_terminal_emulator == <<"x","-","t","e","r","m","i","n","a","l","-","e","m","u","l","a","t","o","r">>
L_gnome_terminal == <<"g","n","o","m","e","-","t","e","r","m","i","n","a","l">>
L_xterm == <<"x","t","e","r","m">>
L_konsole == <<"k","o","n","s","o","l","e">>
L_xfce4_terminal == <<"x","f","c","e","4","-","t","e","r","m","i","n","a","l">>
L_e == <<"-","e">>
L_dashdash == <<"-","-">>
L_sh == <<"s","h">>
L_c == <<"-","c">>
L_sh_sp == <<"s","h"," ">>
L_exec_sh == <<";"," ","e","x","e","c"," ","s","h">>
L_exec_bash == <<";"," ","e","x","e","c"," ","b","a","s","h">>
L_shebang == <<"#","!","/","b","i","n","/","s","h","\n">>
L_cd == <<"c","d"," ">>
L_and == <<" ","&","&"," ">>
L_rm == <<"r","m"," ","-","f"," ">>

\* The message boxes of the launcher.
MsgWorkingDirMissing ==
    [kind |-> "showerror", title |-> "Error",
     msg |-> "Working directory does not exist", detail |-> "none"]
MsgNotFound ==
    [kind |-> "showerror", title |-> "Error",
     msg |-> "Could not find Claude CLI", detail |-> "none"]
MsgFailed(e) ==
    [kind |-> "showerror", title |-> "Error",
     msg |-> "Failed to launch Claude CLI", detail |-> e]
MsgLaunched ==
    [kind |-> "showinfo", title |-> "Launched",
     msg |-> "Claude CLI has been launched in a new window!", detail |-> "none"]
MsgBackground ==
    [kind |-> "showinfo", title |-> "Launched in background",
     msg |-> "Claude CLI was started but no terminal was found to show output",
     detail |-> "none"]

\* One OS call of a launch with its result: "ok", "None" (shutil.which found
\* nothing), "False" (os.path.isdir), or the exception it raised.
Call(op, target, res) ==
    [op |-> op, target |-> target, argv |-> <<>>, cwd |-> <<>>, res |-> res]
PopenCall(target, argv, cwd, res) ==
    [op |-> "Popen", target |-> target, argv |-> argv, cwd |-> cwd, res |-> res]

\* A script that joins the tokens of the vector as they are.
ScriptContent_Unquoted(c, working_dir, script_path) ==
    L_shebang
    \o L_cd \o ShlexQuote(working_dir) \o L_and
    \o Join(S_space, c) \o <<"\n">>
    \o L_rm \o ShlexQuote(script_path) \o <<"\n">>

\* A script whose removal line is chained to the command with &&.
ScriptContent_RmChained(c, working_dir, script_path) ==
    L_shebang
    \o L_cd \o ShlexQuote(working_dir) \o L_and
    \o Join(S_space, [i \in 1..Len(c) |-> ShlexQuote(c[i])]) \o L_and
    \o L_rm \o ShlexQuote(script_path) \o <<"\n">>

\* script_content of lines 961-966.
ScriptContent(c, working_dir, script_path) ==
    L_shebang
    \o L_cd \o ShlexQuote(working_dir) \o L_and
    \o Join(S_space, [i \in 1..Len(c) |-> ShlexQuote(c[i])]) \o <<"\n">>
    \o L_rm \o ShlexQuote(script_path) \o <<"\n">>

\* A launchers list that starts with osascript on every platform.
Launchers_AlwaysOsascript(plat, script_path) ==
    (IF plat \in {"darwin", "linux"}
     THEN << <<L_osascript, L_e,
               L_tell
               \o Replace(Replace(script_path, "\\", <<"\\","\\">>), "\"", <<"\\","\"">>)
               \o <<"\"">> >> >>
     ELSE <<>>)
    \o << <<L_x_terminal_emulator, L_e, L_sh_sp \o ShlexQuote(script_path) \o L_exec_sh>>,
          <<L_gnome_terminal, L_dashdash, L_sh, L_c,
            L_sh_sp \o ShlexQuote(script_path) \o L_exec_bash>>,
          <<L_xterm, L_e, L_sh_sp \o ShlexQuote(script_path) \o L_exec_sh>>,
          <<L_konsole, L_e, L_sh, ShlexQuote(script_path)>>,
          <<L_xfce4_terminal, L_e, L_sh_sp \o ShlexQuote(script_path) \o L_exec_sh>> >>

\* The launchers list of lines 978-990.
Launchers(plat, script_path) ==
    (IF plat = "darwin"
     THEN << <<L_osascript, L_e,
               L_tell
               \o Replace(Replace(script_path, "\\", <<"\\","\\">>), "\"", <<"\\","\"">>)
               \o <<"\"">> >> >>
     ELSE <<>>)
    \o << <<L_x_terminal_emulator, L_e, L_sh_sp \o ShlexQuote(script_path) \o L_exec_sh>>,
          <<L_gnome_terminal, L_dashdash, L_sh, L_c,
            L_sh_sp \o ShlexQuote(script_path) \o L_exec_bash>>,
          <<L_xterm, L_e, L_sh_sp \o ShlexQuote(script_path) \o L_exec_sh>>,
          <<L_konsole, L_e, L_sh, ShlexQuote(script_path)>>,
          <<L_xfce4_terminal, L_e, L_sh_sp \o ShlexQuote(script_path) \o L_exec_sh>> >>

\* Longest launchers list (darwin).
MaxLaunchers == 6

\* What the host does to the calls of one launch.  probe[i] is the fate of the
\* i-th launcher: "absent" (shutil.which finds nothing), "fails" (Popen raises
\* OSError) or "starts".
FileErrors == {"OSError", "FileNotFoundError"}
SpawnResults == {"ok", "FileNotFoundError", "OSError"}
DefaultEnv ==
    [isdir |-> TRUE, mkstemp |-> "ok", write |-> "ok", close |-> "ok",
     close_frees |-> TRUE, close_again |-> "ok", chmod |-> "ok",
     probe |-> [i \in 1..MaxLaunchers |-> "absent"],
     popen |-> "ok", remove |-> "ok"]

\* The fates of n launchers; a launcher after the first that starts is never
\* consulted, so its fate is left "absent".  Of the launchers that are
\* consulted either at most one fails to spawn, or all of them do.
ProbeEnvs(n) ==
    {f \in [1..MaxLaunchers -> {"absent", "fails", "starts"}] :
        /\ \A i \in 1..MaxLaunchers :
            (i > n \/ \E j \in 1..(i - 1) : f[j] = "starts") => f[i] = "absent"
        /\ \/ \A i, j \in 1..MaxLaunchers :
                (f[i] = "fails" /\ f[j] = "fails") => i = j
           \/ \A i \in 1..n :
                (\A j \in 1..(i - 1) : f[j] # "starts") => f[i] # "absent"}

\* The ways staging can go wrong.  A field the launch cannot consult in a
\* scenario is left at its default.
StagingFaults ==
    {[DefaultEnv EXCEPT !.mkstemp = m] : m \in FileErrors}
    \cup {[DefaultEnv EXCEPT !.write = "OSError", !.remove = rm] :
            rm \in {"ok", "OSError"}}
    \cup {[DefaultEnv EXCEPT !.write = "OSError", !.close = "OSError",
                             !.close_frees = fr] : fr \in BOOLEAN}
    \cup {[DefaultEnv EXCEPT !.close = "OSError", !.close_frees = fr,
                             !.close_again = ca, !.remove = rm] :
            fr \in BOOLEAN, ca \in {"ok", "OSError"}, rm \in {"ok", "OSError"}}
    \cup {[DefaultEnv EXCEPT !.chmod = h] : h \in FileErrors}

\* Staging succeeds and n launchers are probed; the direct spawn and the
\* removal of the script are consulted only when no launcher starts.
ProbingEnvs(n) ==
    {[DefaultEnv EXCEPT !.probe = p] :
        p \in {f \in ProbeEnvs(n) : \E i \in 1..n : f[i] = "starts"}}
    \cup {[DefaultEnv EXCEPT !.probe = p, !.popen = r, !.remove = rm] :
            p \in {f \in ProbeEnvs(n) : \A i \in 1..n : f[i] # "starts"},
            r \in SpawnResults, rm \in {"ok", "OSError"}}

InvalidDirEnvs == {[DefaultEnv EXCEPT !.isdir = FALSE]}
Win32Envs == InvalidDirEnvs \cup {[DefaultEnv EXCEPT !.popen = r] : r \in SpawnResults}
DarwinEnvs == InvalidDirEnvs \cup StagingFaults \cup ProbingEnvs(MaxLaunchers)
LinuxEnvs == InvalidDirEnvs \cup StagingFaults \cup ProbingEnvs(MaxLaunchers - 1)

\* The environments of a launch on plat.
LaunchEnvs(plat) ==
    IF plat = "win32" THEN Win32Envs
    ELSE IF plat = "darwin" THEN DarwinEnvs
    ELSE LinuxEnvs

\* The except OSError block of lines 970-976, entered with exception exc while
\* the descriptor is open or not: os.close(fd), then the guarded os.remove,
\* then raise.  A second os.close of a released descriptor raises OSError
\* (EBADF) out of the block, before os.remove is reached.
StagingExcept(done, exc, open, env) ==
    LET res == IF ~open THEN "OSError"
               ELSE IF done[Len(done)].op = "close" THEN env.close_again
               ELSE env.close
        closed == Append(done, Call("close", "script", res))
    IN  IF res # "ok"
        THEN [calls |-> closed, exc |-> "OSError", exists |-> TRUE,
              content |-> <<>>,
              fd |-> open /\ ~env.close_frees]
        ELSE [calls |-> Append(closed, Call("remove", "script", env.remove)),
              exc |-> exc, exists |-> env.remove # "ok", content |-> <<>>,
              fd |-> FALSE]

\* Lines 958-976: mkstemp, then write, close and chmod under try; content is
\* the script_content of lines 961-966.
StageScript(content, env) ==
    LET c1 == <<Call("mkstemp", "script", env.mkstemp)>>
        c2 == Append(c1, Call("write", "script", env.write))
        c3 == Append(c2, Call("close", "script", env.close))
        c4 == Append(c3, Call("chmod", "script", env.chmod))
    IN  IF env.mkstemp # "ok"
        THEN [calls |-> c1, exc |-> env.mkstemp, exists |-> FALSE,
              content |-> <<>>, fd |-> FALSE]
        ELSE IF env.write # "ok" THEN StagingExcept(c2, env.write, TRUE, env)
        ELSE IF env.close # "ok"
             THEN StagingExcept(c3, env.close, ~env.close_frees, env)
        ELSE IF env.chmod # "ok" THEN StagingExcept(c4, env.chmod, FALSE, env)
        ELSE [calls |-> c4, exc |-> "none", exists |-> TRUE,
              content |-> content, fd |-> FALSE]

\* shutil.which(argv[0]) of line 993.
WhichCall(argv, res) ==
    [Call("which", "launcher", res) EXCEPT !.argv = <<argv[1]>>]

\* A probe loop that goes on to the next launcher after one has started.
RECURSIVE Probe_KeepsGoing(_, _, _)
Probe_KeepsGoing(launchers, i, env) ==
    IF i > Len(launchers) THEN [calls |-> <<>>, started |-> FALSE]
    ELSE LET argv == launchers[i]
             rest == Probe_KeepsGoing(launchers, i + 1, env)
             found == env.probe[i] # "absent"
         IN  [calls |-> <<WhichCall(argv, IF found THEN "ok" ELSE "None")>>
                        \o (IF found
                            THEN <<PopenCall("launcher", argv, <<>>,
                                             IF env.probe[i] = "starts" THEN "ok"
                                             ELSE "OSError")>>
                            ELSE <<>>)
                        \o rest.calls,
              started |-> env.probe[i] = "starts" \/ rest.started]

\* The for loop of lines 991-998 from launcher i on: the calls made, and
\* whether a launcher started (the loop returned).
RECURSIVE Probe(_, _, _)
Probe(launchers, i, env) ==
    IF i > Len(launchers) THEN [calls |-> <<>>, started |-> FALSE]
    ELSE LET argv == launchers[i]
         IN  IF env.probe[i] = "absent"
             THEN LET rest == Probe(launchers, i + 1, env)
                  IN  [calls |-> <<WhichCall(argv, "None")>> \o rest.calls,
                       started |-> rest.started]
             ELSE IF env.probe[i] = "fails"
             THEN LET rest == Probe(launchers, i + 1, env)
                  IN  [calls |-> <<WhichCall(argv, "ok"),
                                   PopenCall("launcher", argv, <<>>, "OSError")>>
                                 \o rest.calls,
                       started |-> rest.started]
             ELSE [calls |-> <<WhichCall(argv, "ok"),
                               PopenCall("launcher", argv, <<>>, "ok")>>,
                   started |-> TRUE]

\* A fallback without the finally clause: the script is removed only when
\* the direct spawn returns.
Fallback_NoFinally(c, working_dir, env) ==
    [calls |-> <<PopenCall("raw", c, working_dir, env.popen)>>
               \o (IF env.popen = "ok"
                   THEN <<Call("remove", "script", env.remove)>> ELSE <<>>),
     dialogs |-> IF env.popen = "ok" THEN <<MsgBackground>> ELSE <<>>,
     exc |-> IF env.popen = "ok" THEN "none" ELSE env.popen,
     exists |-> IF env.popen = "ok" THEN env.remove # "ok" ELSE TRUE]

\* A fallback that leaves the staged script in place.
Fallback_KeepsScript(c, working_dir, env) ==
    [calls |-> <<PopenCall("raw", c, working_dir, env.popen)>>,
     dialogs |-> IF env.popen = "ok" THEN <<MsgBackground>> ELSE <<>>,
     exc |-> IF env.popen = "ok" THEN "none" ELSE env.popen,
     exists |-> TRUE]

\* Lines 999-1011: try: Popen(cmd, cwd=working_dir) finally: the guarded
\* os.remove(script_path); then the notice, which an exception of Popen skips.
Fallback(c, working_dir, env) ==
    [calls |-> <<PopenCall("raw", c, working_dir, env.popen),
                 Call("remove", "script", env.remove)>>,
     dialogs |-> IF env.popen = "ok" THEN <<MsgBackground>> ELSE <<>>,
     exc |-> IF env.popen = "ok" THEN "none" ELSE env.popen,
     exists |-> env.remove # "ok"]

\* _launch_claude_unix: the calls it makes, the notice it shows, the
\* exception it raises ("none" when it returns), and the script it leaves.
\* content and launchers are the script_content and the launchers list it
\* computes from cmd, working_dir and the script path.
LaunchClaudeUnix(c, working_dir, content, launchers, env) ==
    LET staged == StageScript(content, env)
        probed == Probe(launchers, 1, env)
        fell == Fallback(c, working_dir, env)
    IN  IF staged.exc # "none"
        THEN [calls |-> staged.calls, dialogs |-> <<>>, exc |-> staged.exc,
              exists |-> staged.exists, content |-> staged.content,
              fd |-> staged.fd]
        ELSE IF probed.started
        THEN [calls |-> staged.calls \o probed.calls, dialogs |-> <<>>,
              exc |-> "none", exists |-> TRUE, content |-> staged.content,
              fd |-> FALSE]
        ELSE [calls |-> staged.calls \o probed.calls \o fell.calls,
              dialogs |-> fell.dialogs,
              exc |-> fell.exc,
              exists |-> fell.exists,
              content |-> staged.content,
              fd |-> FALSE]

\* A launch that stages a script on every platform.
PlatformLaunch_AlwaysScript(c, working_dir, plat, content, launchers, env) ==
    LaunchClaudeUnix(c, working_dir, content, launchers, env)

\* The if/else of lines 936-945.
PlatformLaunch(c, working_dir, plat, content, launchers, env) ==
    IF plat = "win32"
    THEN [calls |-> <<PopenCall("raw", c, working_dir, env.popen)>>,
          dialogs |-> <<>>,
          exc |-> IF env.popen = "ok" THEN "none" ELSE env.popen,
          exists |-> FALSE, content |-> <<>>, fd |-> FALSE]
    ELSE LaunchClaudeUnix(c, working_dir, content, launchers, env)

\* The try/except of lines 935-954 around the platform's launch.
LaunchTry(c, working_dir, plat, content, launchers, env) ==
    LET r == PlatformLaunch(c, working_dir, plat, content, launchers, env)
    IN  [r EXCEPT !.dialogs =
            r.dialogs \o (IF r.exc = "none" THEN <<MsgLaunched>>
                          ELSE IF r.exc = "FileNotFoundError" THEN <<MsgNotFound>>
                          ELSE <<MsgFailed(r.exc)>>)]

\* working_dir = self.working_dir_var.get().strip() or self._get_safe_working_dir()
WorkingDir(v, safe) ==
    IF Strip(v.working_dir_var) # <<>> THEN Strip(v.working_dir_var) ELSE safe

\* os.path.isdir(working_dir) of line 931.
IsdirCall(working_dir, ok) ==
    [Call("isdir", "working_dir", IF ok THEN "ok" ELSE "False")
        EXCEPT !.cwd = working_dir]

\* A launch that does not look at the working directory's existence.
LaunchOutcome_NoDirCheck(c, working_dir, plat, content, launchers, env) ==
    LET r == LaunchTry(c, working_dir, plat, content, launchers, env)
    IN  [r EXCEPT !.calls = <<IsdirCall(working_dir, env.isdir)>> \o r.calls]

\* Lines 931-954: the working directory check, then the guarded launch.
LaunchOutcome(c, working_dir, plat, content, launchers, env) ==
    IF ~env.isdir
    THEN [calls |-> <<IsdirCall(working_dir, FALSE)>>,
          dialogs |-> <<MsgWorkingDirMissing>>, exc |-> "none",
          exists |-> FALSE, content |-> <<>>, fd |-> FALSE]
    ELSE LET r == LaunchTry(c, working_dir, plat, content, launchers, env)
         IN  [r EXCEPT !.calls = <<IsdirCall(working_dir, TRUE)>> \o r.calls]

\* _launch_claude, the handler of the Launch button.
LaunchClaude ==
    \E safe \in SafeDirs :
        LET c == BuildCommand(tkvars, texts, plugin_dirs, add_dirs)
            working_dir == WorkingDir(tkvars, safe)
            content == ScriptContent(c, working_dir, S_script_path)
            launchers == Launchers(platform, S_script_path)
        IN  /\ launches < MaxLaunches
            /\ launches' = launches + 1
            /\ cmd' = c
            /\ \E env \in LaunchEnvs(platform) :
                 LET r == LaunchOutcome(c, working_dir, platform, content,
                                        launchers, env)
                 IN  /\ calls' = r.calls
                     /\ dialogs' = r.dialogs
                     /\ script_exists' = r.exists
                     /\ script_content' = r.content
                     /\ fd_open' = r.fd
                     /\ script_trace' = <<>>
            /\ UNCHANGED <<platform, formVars, command_preview, clipboard, edits,
                           quoteVars>>

\* ------------------------------------------------------------------------
\* The terminal's sh running the staged script: the text of lines 961-966
\* read by the shell's rules and executed line by line.
\* ------------------------------------------------------------------------
W_cd == <<"c","d">>
W_rm == <<"r","m">>
W_f == <<"-","f">>

\* Characters of the alphabet that make sh do more than read a word.
ShActive == {"|", "<", ">", "$", ";", "(", ")"}

PushWord(line, cur, have) ==
    IF have THEN Append(line, [op |-> FALSE, text |-> cur]) ELSE line
PushLine(lines, line) == IF line = <<>> THEN lines ELSE Append(lines, line)

\* The reader's state before the first character: mode is "u" (unquoted),
\* "s" (single quotes), "d" (double quotes) or "c" (comment); esc and amp
\* say that a backslash or a first & was just read.
ShStart ==
    [ok |-> TRUE, mode |-> "u", esc |-> FALSE, amp |-> FALSE,
     cur |-> <<>>, have |-> FALSE, line |-> <<>>, lines |-> <<>>]

ShAdd(st, c) == [st EXCEPT !.cur = Append(st.cur, c), !.have = TRUE, !.esc = FALSE]
ShEndWord(st) ==
    [st EXCEPT !.line = PushWord(st.line, st.cur, st.have), !.cur = <<>>, !.have = FALSE]
ShEndLine(st) ==
    [st EXCEPT !.lines = PushLine(st.lines, PushWord(st.line, st.cur, st.have)),
               !.line = <<>>, !.cur = <<>>, !.have = FALSE, !.mode = "u"]

\* The reader's state after one more character.
ShStep(st, c) ==
    CASE ~st.ok -> st
      [] st.mode = "c" -> IF c = "\n" THEN ShEndLine(st) ELSE st
      [] st.mode = "s" ->
            IF c = "'" THEN [st EXCEPT !.mode = "u"] ELSE ShAdd(st, c)
      [] st.mode = "d" /\ st.esc ->
            IF c = "\n" THEN [st EXCEPT !.esc = FALSE]
            ELSE IF c \in {"$", "\"", "\\"} THEN ShAdd(st, c)
            ELSE ShAdd(ShAdd(st, "\\"), c)
      [] st.mode = "d" /\ ~st.esc ->
            IF c = "\"" THEN [st EXCEPT !.mode = "u"]
            ELSE IF c = "\\" THEN [st EXCEPT !.esc = TRUE]
            ELSE IF c = "$" THEN [st EXCEPT !.ok = FALSE]
            ELSE ShAdd(st, c)
      [] st.mode = "u" /\ st.esc ->
            IF c = "\n" THEN [st EXCEPT !.esc = FALSE] ELSE ShAdd(st, c)
      [] st.mode = "u" /\ st.amp ->
            IF c = "&"
            THEN [st EXCEPT !.amp = FALSE,
                            !.line = Append(st.line, [op |-> TRUE, text |-> <<"&", "&">>])]
            ELSE [st EXCEPT !.ok = FALSE]
      [] OTHER ->
            IF c = "'" THEN [st EXCEPT !.mode = "s", !.have = TRUE]
            ELSE IF c = "\"" THEN [st EXCEPT !.mode = "d", !.have = TRUE]
            ELSE IF c = "#" /\ ~st.have THEN [st EXCEPT !.mode = "c"]
            ELSE IF c = "\n" THEN ShEndLine(st)
            ELSE IF c \in {" ", "\t"} THEN ShEndWord(st)
            ELSE IF c = "&" THEN [ShEndWord(st) EXCEPT !.amp = TRUE]
            ELSE IF c \in ShActive THEN [st EXCEPT !.ok = FALSE]
            ELSE IF c = "\\" THEN [st EXCEPT !.esc = TRUE]
            ELSE ShAdd(st, c)

RECURSIVE ShRead(_, _, _)
ShRead(s, i, st) ==
    IF ~st.ok \/ i > Len(s) THEN st ELSE ShRead(s, i + 1, ShStep(st, s[i]))

\* The lines of a script, each a list of words and && operators.
ShLex(s) ==
    LET st == ShRead(s, 1, ShStart)
    IN  IF st.ok /\ st.mode \in {"u", "c"} /\ ~st.esc /\ ~st.amp
        THEN [ok |-> TRUE, lines |-> ShEndLine(st).lines]
        ELSE [ok |-> FALSE, lines |-> <<>>]

\* The exit status of a command: that of the cd, of the rm, or of the
\* program the vector names.
Succeeds(argv, how) ==
    IF argv = <<>> THEN FALSE
    ELSE IF argv[1] = W_cd THEN how.cd
    ELSE IF argv[1] = W_rm THEN how.rm
    ELSE how.cmd

\* One line run from word i on, argv being the command read so far: an
\* and-list stops at its first failing command.
RECURSIVE RunAndList(_, _, _, _)
RunAndList(line, i, argv, how) ==
    IF i > Len(line) THEN <<[argv |-> argv, ok |-> Succeeds(argv, how)]>>
    ELSE IF line[i].op
    THEN IF Succeeds(argv, how)
         THEN <<[argv |-> argv, ok |-> TRUE]>> \o RunAndList(line, i + 1, <<>>, how)
         ELSE <<[argv |-> argv, ok |-> FALSE]>>
    ELSE RunAndList(line, i + 1, Append(argv, line[i].text), how)

\* The lines run one after the other, whatever the status of the line before.
RECURSIVE RunLines(_, _, _)
RunLines(lines, k, how) ==
    IF k > Len(lines) THEN <<>>
    ELSE RunAndList(lines[k], 1, <<>>, how) \o RunLines(lines, k + 1, how)

\* The commands sh runs for a script; a text sh cannot read runs nothing
\* and is recorded as one failed empty command.
ShRun(content, how) ==
    LET read == ShLex(content)
    IN  IF read.ok THEN RunLines(read.lines, 1, how)
        ELSE <<[argv |-> <<>>, ok |-> FALSE]>>

\* The started terminal runs the script to completion.
ScriptRuns ==
    /\ \E i \in 1..Len(calls) :
          calls[i].op = "Popen" /\ calls[i].target = "launcher" /\ calls[i].res = "ok"
    /\ script_exists
    /\ script_trace = <<>>
    /\ \E cd_ok, cmd_ok, rm_ok \in BOOLEAN :
          LET ran == ShRun(script_content, [cd |-> cd_ok, cmd |-> cmd_ok, rm |-> rm_ok])
          IN  /\ script_trace' = ran
              /\ script_exists' =
                    ~\E k \in 1..Len(ran) :
                        ran[k].argv = <<W_rm, W_f, S_script_path>> /\ ran[k].ok
    /\ UNCHANGED <<platform, formVars, cmd, command_preview, clipboard, edits,
                   launches, calls, dialogs, script_content, fd_open, quoteVars>>

\* Sessions in which the working directory has been typed as well.
InitLaunch ==
    /\ platform \in Platforms
    /\ \E safe \in SafeDirs, wd \in WorkingDirVals :
        \/ /\ tkvars = [InitTkvars(S_claude, safe) EXCEPT
                           !.working_dir_var = wd, !.prompt_var = S_hello]
           /\ texts = InitTexts
        \/ /\ tkvars = [ScenarioBTkvars(S_usr_claude, safe) EXCEPT
                           !.working_dir_var = wd]
           /\ texts = InitTexts
        \/ /\ tkvars = [InitTkvars(S_claude, safe) EXCEPT
                           !.working_dir_var = wd, !.prompt_var = S_its_a]
           /\ texts = [InitTexts EXCEPT !.system_prompt_text = T_two_lines]
    /\ plugin_dirs = <<>>
    /\ add_dirs = <<>>
    /\ plugin_listbox = plugin_dirs
    /\ add_dir_listbox = add_dirs
    /\ cmd = BuildCommand(tkvars, texts, plugin_dirs, add_dirs)
    /\ command_preview = GetCommandString(cmd, platform)
    /\ clipboard = <<>>
    /\ edits = 0
    /\ NoLaunch

NextLaunch ==
    \/ LaunchClaude
    \/ ScriptRuns

SpecLaunch == InitLaunch /\ [][NextLaunch]_vars

\* ------------------------------------------------------------------------
\* Reading a built vector back: the canonical flag list of the rules and the
\* positions of a vector at which a flag (not a flag's value) stands.
\* ------------------------------------------------------------------------
\* The flags in the order of rules 2 to 18, each with whether a value follows.
CanonicalFlags ==
    << <<Flag_model, TRUE>>, <<Flag_fallback_model, TRUE>>,
       <<Flag_c, FALSE>>, <<Flag_r, TRUE>>, <<Flag_fork_session, FALSE>>,
       <<Flag_session_id, TRUE>>,
       <<Flag_agent, TRUE>>, <<Flag_agents, TRUE>>,
       <<Flag_tools, TRUE>>,
       <<Flag_allowedTools, TRUE>>, <<Flag_disallowedTools, TRUE>>,
       <<Flag_disable_slash_commands, FALSE>>,
       <<Flag_system_prompt, TRUE>>, <<Flag_append_system_prompt, TRUE>>,
       <<Flag_p, FALSE>>,
       <<Flag_input_format, TRUE>>, <<Flag_output_format, TRUE>>,
       <<Flag_json_schema, TRUE>>, <<Flag_include_partial_messages, FALSE>>,
       <<Flag_replay_user_messages, FALSE>>,
       <<Flag_mcp_config, TRUE>>, <<Flag_strict_mcp_config, FALSE>>,
       <<Flag_plugin_dir, TRUE>>,
       <<Flag_permission_mode, TRUE>>,
       <<Flag_allow_dangerously_skip_permissions, FALSE>>,
       <<Flag_dangerously_skip_permissions, FALSE>>,
       <<Flag_add_dir, TRUE>>, <<Flag_file, TRUE>>, <<Flag_max_budget_usd, TRUE>>,
       <<Flag_debug, TRUE>>, <<Flag_debug_file, TRUE>>, <<Flag_verbose, FALSE>>,
       <<Flag_chrome, FALSE>>, <<Flag_no_chrome, FALSE>>,
       <<Flag_ide, FALSE>>,
       <<Flag_settings, TRUE>>, <<Flag_setting_sources, TRUE>>,
       <<Flag_betas, TRUE>>, <<Flag_no_session_persistence, FALSE>> >>

AllFlags == {CanonicalFlags[i][1] : i \in 1..Len(CanonicalFlags)}
ValueFlags ==
    {CanonicalFlags[i][1] : i \in {j \in 1..Len(CanonicalFlags) : CanonicalFlags[j][2]}}
RepeatableFlags == {Flag_plugin_dir, Flag_add_dir}
RuleRank(flag) == CHOOSE i \in 1..Len(CanonicalFlags) : CanonicalFlags[i][1] = flag

\* The positions i..n of c at which a flag is expected, skipping the token
\* after each value-taking flag.
RECURSIVE FlagPositions(_, _, _)
FlagPositions(c, i, n) ==
    IF i > n THEN <<>>
    ELSE <<i>> \o FlagPositions(c, IF c[i] \in ValueFlags THEN i + 2 ELSE i + 1, n)

\* The last index of the flag region of the built vector: the end of the
\* vector, or the token before the prompt.
FlagRegionEnd == IF tkvars.prompt_var # <<>> THEN Len(cmd) - 1 ELSE Len(cmd)
CmdFlagPositions == FlagPositions(cmd, 2, FlagRegionEnd)

\* Tokens 2..n of c are flags of the builder, each value-taking one with a
\* value token inside the region.
FlagRegionWellFormed(c, n) ==
    LET pos == FlagPositions(c, 2, n)
    IN  \A k \in 1..Len(pos) :
            /\ c[pos[k]] \in AllFlags
            /\ c[pos[k]] \in ValueFlags => pos[k] + 1 <= n

\* How often flag stands at one of the flag positions pos of the built vector.
FlagCount(pos, flag) ==
    Cardinality({k \in 1..Len(pos) : cmd[pos[k]] = flag})

\* The value tokens that follow flag in the built vector, in order.
RECURSIVE ValuesAt(_, _)
ValuesAt(pos, flag) ==
    IF pos = <<>> THEN <<>>
    ELSE (IF cmd[Head(pos)] = flag /\ Head(pos) + 1 <= Len(cmd)
          THEN <<cmd[Head(pos) + 1]>> ELSE <<>>) \o ValuesAt(Tail(pos), flag)

\* sub occurs in c as a subsequence (in order, not necessarily adjacent).
RECURSIVE IsSubsequence(_, _)
IsSubsequence(sub, c) ==
    IF sub = <<>> THEN TRUE
    ELSE IF c = <<>> THEN FALSE
    ELSE IF Head(sub) = Head(c) THEN IsSubsequence(Tail(sub), Tail(c))
    ELSE IsSubsequence(sub, Tail(c))

\* The field a scalar value-taking flag carries.
StrippedText(w) == Strip(TextGet(texts[w]))
SelectedSources ==
    SelectSeq(<<S_user, S_project, S_local>>,
              LAMBDA x : \/ x = S_user /\ tkvars.setting_user_var
                         \/ x = S_project /\ tkvars.setting_project_var
                         \/ x = S_local /\ tkvars.setting_local_var)
OwnValue(flag) ==
    CASE flag = Flag_model -> tkvars.model_var
      [] flag = Flag_fallback_model -> tkvars.fallback_model_var
      [] flag = Flag_r -> tkvars.resume_var
      [] flag = Flag_session_id -> tkvars.session_id_var
      [] flag = Flag_agent -> tkvars.agent_var
      [] flag = Flag_agents -> StrippedText("agents_json_text")
      [] flag = Flag_tools -> StrippedText("tools_text")
      [] flag = Flag_allowedTools -> tkvars.allowed_tools_var
      [] flag = Flag_disallowedTools -> tkvars.disallowed_tools_var
      [] flag = Flag_system_prompt -> StrippedText("system_prompt_text")
      [] flag = Flag_append_system_prompt -> StrippedText("append_prompt_text")
      [] flag = Flag_input_format -> tkvars.input_format_var
      [] flag = Flag_output_format -> tkvars.output_format_var
      [] flag = Flag_json_schema -> StrippedText("json_schema_text")
      [] flag = Flag_mcp_config -> tkvars.mcp_config_var
      [] flag = Flag_permission_mode -> tkvars.permission_mode_var
      [] flag = Flag_file -> tkvars.file_specs_var
      [] flag = Flag_max_budget_usd -> tkvars.max_budget_var
      [] flag = Flag_debug -> tkvars.debug_var
      [] flag = Flag_debug_file -> tkvars.debug_file_var
      [] flag = Flag_settings -> tkvars.settings_var
      [] flag = Flag_setting_sources -> Join(S_comma, SelectedSources)
      [] flag = Flag_betas -> tkvars.betas_var

\* ------------------------------------------------------------------------
\* C1: when the prompt is non-empty, the built vector ends with the prompt,
\* and every token between the executable and that last token is a flag or a
\* flag's value, so that nothing is emitted after the prompt.
\* ------------------------------------------------------------------------
Theorem_C1 ==
    tkvars.prompt_var # <<>> =>
        /\ Len(cmd) >= 2
        /\ cmd[Len(cmd)] = tkvars.prompt_var
        /\ FlagRegionWellFormed(cmd, Len(cmd) - 1)

\* A prompt that looks like a flag, typed into a fully populated form.
Witness_C1 ==
    /\ edits = 1
    /\ tkvars.prompt_var = S_dashp
    /\ tkvars.betas_var # <<>>
    /\ tkvars.no_session_persistence_var
    /\ Len(plugin_dirs) = 2
    /\ cmd[Len(cmd)] = S_dashp

\* ------------------------------------------------------------------------
\* C2: the executable is the first token; the flags stand in the order of the
\* rule list (only --plugin-dir and --add-dir repeat); every value-taking flag
\* is followed at once by the value of its own field.
\* ------------------------------------------------------------------------
Theorem_C2 ==
    LET pos == CmdFlagPositions
    IN  /\ Len(cmd) >= 1
        /\ cmd[1] = (IF tkvars.claude_path_var # <<>>
                     THEN tkvars.claude_path_var ELSE S_claude)
        /\ FlagRegionWellFormed(cmd, FlagRegionEnd)
        /\ LET rank == [k \in 1..Len(pos) |-> RuleRank(cmd[pos[k]])]
           IN  \A k \in 1..(Len(pos) - 1) :
                 \/ rank[k] < rank[k + 1]
                 \/ /\ rank[k] = rank[k + 1]
                    /\ cmd[pos[k]] \in RepeatableFlags
        /\ \A k \in 1..Len(pos) :
              LET f == cmd[pos[k]]
              IN  f \in ValueFlags \ RepeatableFlags => cmd[pos[k] + 1] = OwnValue(f)
        /\ (/\ tkvars.continue_var
            /\ tkvars.resume_var # <<>>
            /\ tkvars.print_mode_var
            /\ tkvars.output_format_var # S_text)
           => IsSubsequence(<<Flag_c, Flag_r, tkvars.resume_var, Flag_p,
                              Flag_output_format, tkvars.output_format_var>>, cmd)

\* Scenario B exactly: continue, resume, print mode and output format json,
\* nothing else set.
Witness_C2 ==
    /\ edits = 1
    /\ cmd = <<ClaudePath(tkvars), Flag_c, Flag_r, S_hello, Flag_p,
               Flag_output_format, S_json>>

\* ------------------------------------------------------------------------
\* C3: an enumeration at its default emits no flag; at any other value of
\* its list it emits its flag exactly once (with the value as the next token
\* for the two formats and the permission mode); --chrome and --no-chrome
\* never stand in one vector.
\* ------------------------------------------------------------------------
EmitsOnceWithValue(pos, flag, value) ==
    /\ FlagCount(pos, flag) = 1
    /\ ValuesAt(pos, flag) = <<value>>

Theorem_C3 ==
    LET pos == CmdFlagPositions
        chrome == FlagCount(pos, Flag_chrome)
        no_chrome == FlagCount(pos, Flag_no_chrome)
    IN  /\ IF tkvars.input_format_var = S_text
           THEN FlagCount(pos, Flag_input_format) = 0
           ELSE EmitsOnceWithValue(pos, Flag_input_format, tkvars.input_format_var)
        /\ IF tkvars.output_format_var = S_text
           THEN FlagCount(pos, Flag_output_format) = 0
           ELSE EmitsOnceWithValue(pos, Flag_output_format, tkvars.output_format_var)
        /\ IF tkvars.permission_mode_var = S_default
           THEN FlagCount(pos, Flag_permission_mode) = 0
           ELSE EmitsOnceWithValue(pos, Flag_permission_mode,
                                   tkvars.permission_mode_var)
        /\ chrome = (IF tkvars.chrome_var = S_enabled THEN 1 ELSE 0)
        /\ no_chrome = (IF tkvars.chrome_var = S_disabled THEN 1 ELSE 0)
        /\ chrome + no_chrome <= 1

\* Chrome integration switched to disabled in a form whose other three
\* enumerations are off their defaults.
Witness_C3 ==
    /\ edits = 1
    /\ tkvars.chrome_var = S_disabled
    /\ tkvars.input_format_var = S_stream_json
    /\ tkvars.output_format_var = S_json
    /\ tkvars.permission_mode_var = S_plan
    /\ FlagCount(CmdFlagPositions, Flag_no_chrome) = 1

ValueEntryFields == EntryVarNames \ {"claude_path_var", "working_dir_var", "prompt_var"}
SourceBooleans == {"setting_user_var", "setting_project_var", "setting_local_var"}
FlagBooleans == BooleanVarNames \ SourceBooleans

ExpectedLen ==
    1 + 2 * Cardinality({n \in ValueEntryFields : tkvars[n] # <<>>})
      + Cardinality({n \in FlagBooleans : tkvars[n]})
      + 2 * Cardinality({w \in TextNames : StrippedText(w) # <<>>})
      + 2 * Cardinality({n \in {"input_format_var", "output_format_var"} :
                            tkvars[n] # S_text})
      + (IF tkvars.permission_mode_var # S_default THEN 2 ELSE 0)
      + (IF tkvars.chrome_var # S_default THEN 1 ELSE 0)
      + 2 * Len(plugin_dirs) + 2 * Len(add_dirs)
      + (IF \E n \in SourceBooleans : tkvars[n] THEN 2 ELSE 0)
      + (IF tkvars.prompt_var # <<>> THEN 1 ELSE 0)

\* Every field except those named is empty, false or at its default.
UnsetExcept(names) ==
    /\ \A n \in (ValueEntryFields \cup {"prompt_var"}) \ names : tkvars[n] = <<>>
    /\ \A n \in BooleanVarNames : ~tkvars[n]
    /\ \A w \in TextNames : StrippedText(w) = <<>>
    /\ tkvars.input_format_var = S_text
    /\ tkvars.output_format_var = S_text
    /\ tkvars.permission_mode_var = S_default
    /\ tkvars.chrome_var = S_default
    /\ plugin_dirs = <<>>
    /\ add_dirs = <<>>

Executable ==
    IF tkvars.claude_path_var # <<>> THEN tkvars.claude_path_var ELSE S_claude

Theorem_C5 ==
    /\ Len(cmd) = ExpectedLen
    /\ (/\ UnsetExcept({"model_var", "prompt_var"})
        /\ tkvars.model_var # <<>>
        /\ tkvars.prompt_var # <<>>)
       => cmd = <<Executable, Flag_model, tkvars.model_var, tkvars.prompt_var>>
    /\ UnsetExcept({}) => cmd = <<Executable>>

\* Scenario A: model opus, prompt hello, executable claude.
Witness_C5 ==
    /\ edits = 1
    /\ UnsetExcept({"model_var", "prompt_var"})
    /\ cmd = <<S_claude, Flag_model, S_opus, S_hello>>

\* ------------------------------------------------------------------------
\* C6: the values that follow --plugin-dir in the built vector are exactly
\* the plugin directories, one pair per entry in list order, and the values
\* that follow --add-dir are exactly the extra directories.
\* ------------------------------------------------------------------------
Theorem_C6 ==
    LET pos == CmdFlagPositions
    IN  /\ FlagCount(pos, Flag_plugin_dir) = Len(plugin_dirs)
        /\ ValuesAt(pos, Flag_plugin_dir) = plugin_dirs
        /\ FlagCount(pos, Flag_add_dir) = Len(add_dirs)
        /\ ValuesAt(pos, Flag_add_dir) = add_dirs

\* Three plugin directories and two extra directories, which share paths.
Witness_C6 ==
    /\ edits = 1
    /\ plugin_dirs = <<P1, P2, P3>>
    /\ add_dirs = <<P2, P1>>
    /\ ValuesAt(CmdFlagPositions, Flag_plugin_dir) = <<P1, P2, P3>>
    /\ ValuesAt(CmdFlagPositions, Flag_add_dir) = <<P2, P1>>

\* ------------------------------------------------------------------------
\* Reading a finished launch back from its calls and message boxes.
\* ------------------------------------------------------------------------
CallsOf(op) == {i \in 1..Len(calls) : calls[i].op = op}

\* os.path.isdir answered False / True for the working directory.
DirRejected == calls # <<>> /\ calls[1].op = "isdir" /\ calls[1].res = "False"
DirAccepted == calls # <<>> /\ calls[1].op = "isdir" /\ calls[1].res = "ok"

\* The working directory the launch computes from the form.
LaunchDirs == {WorkingDir(tkvars, safe) : safe \in SafeDirs}

\* The script was staged: chmod, the last staging step, returned.
Staged == \E i \in CallsOf("chmod") : calls[i].res = "ok"

\* A staging step after the creation of the file raised.
StagingFailedAfterCreate ==
    \E i \in CallsOf("write") \cup CallsOf("close") \cup CallsOf("chmod") :
        calls[i].res # "ok"

LauncherSpawns == {i \in CallsOf("Popen") : calls[i].target = "launcher"}
RawSpawns == {i \in CallsOf("Popen") : calls[i].target = "raw"}
LauncherStarted == \E i \in LauncherSpawns : calls[i].res = "ok"

\* No launcher started and the fallback of lines 999-1011 was entered.
NoTerminalFallback == platform # "win32" /\ Staged /\ ~LauncherStarted

\* The raw vector is spawned once in the working directory, and the removal
\* of the script is the last call of the launch.
RawSpawnThenRemove ==
    /\ Len(calls) >= 2
    /\ RawSpawns = {Len(calls) - 1}
    /\ calls[Len(calls) - 1].argv = BuildCommand(tkvars, texts, plugin_dirs, add_dirs)
    /\ calls[Len(calls) - 1].cwd \in LaunchDirs
    /\ calls[Len(calls)].op = "remove"
    /\ calls[Len(calls)].res = "ok" => ~script_exists

BackgroundShown == \E i \in 1..Len(dialogs) : dialogs[i] = MsgBackground

\* ------------------------------------------------------------------------
\* C7: when os.path.isdir rejects the working directory, the launch shows
\* the working-directory error and nothing else, on every platform, and it
\* neither creates a temporary script nor spawns any process.
\* ------------------------------------------------------------------------
Theorem_C7 ==
    DirRejected =>
        /\ calls[1].cwd \in LaunchDirs
        /\ dialogs = <<MsgWorkingDirMissing>>
        /\ CallsOf("mkstemp") = {}
        /\ CallsOf("Popen") = {}
        /\ Len(calls) = 1
        /\ ~script_exists

\* A rejected directory with blanks in it on a platform that would stage a
\* script.
Witness_C7 ==
    /\ platform = "linux"
    /\ DirRejected
    /\ calls[1].cwd = P2
    /\ dialogs = <<MsgWorkingDirMissing>>

\* ------------------------------------------------------------------------
\* C8 as stated: on a POSIX launch in which no launcher starts, the raw
\* vector is spawned in the working directory, the background notice is
\* shown, and the script is gone when its removal succeeds.
\* ------------------------------------------------------------------------
Counterexample_C8 ==
    NoTerminalFallback => (RawSpawnThenRemove /\ BackgroundShown)

\* ------------------------------------------------------------------------
\* C8 amended: on a POSIX launch in which no launcher starts, the raw vector
\* is spawned in the working directory and the script is gone when its
\* removal succeeds; the background notice is shown when that spawn succeeds.
\* ------------------------------------------------------------------------
Theorem_C8 ==
    NoTerminalFallback =>
        /\ RawSpawnThenRemove
        /\ calls[Len(calls) - 1].res = "ok" => BackgroundShown

\* One launcher resolved and failed to spawn, another did not resolve, and
\* the raw spawn and the removal succeeded.
Witness_C8 ==
    /\ platform = "linux"
    /\ NoTerminalFallback
    /\ \E i \in LauncherSpawns : calls[i].res = "OSError"
    /\ \E i \in CallsOf("which") : calls[i].res = "None"
    /\ calls[Len(calls) - 1].res = "ok"
    /\ calls[Len(calls)].res = "ok"
    /\ BackgroundShown
    /\ ~script_exists

\* ------------------------------------------------------------------------
\* C9: when writing, closing or chmod of the staged script raises, the
\* removal of the script is attempted, the script is gone when that removal
\* succeeds, nothing is spawned, and the launch is reported as failed.
\* ------------------------------------------------------------------------
Counterexample_C9 ==
    StagingFailedAfterCreate =>
        /\ CallsOf("remove") # {}
        /\ \A i \in CallsOf("remove") : calls[i].res = "ok" => ~script_exists
        /\ CallsOf("Popen") = {}
        /\ Len(dialogs) = 1
        /\ dialogs[1].kind = "showerror"

\* ------------------------------------------------------------------------
\* C10: on win32 a launch with an accepted working directory stages no
\* script and makes one spawn, of the built vector in the working directory;
\* its success is reported as launched, FileNotFoundError as the missing
\* executable, and any other exception as a failure carrying the exception.
\* ------------------------------------------------------------------------
Theorem_C10 ==
    (platform = "win32" /\ DirAccepted) =>
        /\ CallsOf("mkstemp") = {}
        /\ CallsOf("write") = {}
        /\ ~script_exists
        /\ script_content = <<>>
        /\ Len(calls) = 2
        /\ CallsOf("Popen") = {2}
        /\ calls[2].target = "raw"
        /\ calls[2].argv = BuildCommand(tkvars, texts, plugin_dirs, add_dirs)
        /\ calls[2].cwd \in LaunchDirs
        /\ dialogs = <<IF calls[2].res = "ok" THEN MsgLaunched
                       ELSE IF calls[2].res = "FileNotFoundError" THEN MsgNotFound
                       ELSE MsgFailed(calls[2].res)>>

\* The spawn raised an exception other than FileNotFoundError.
Witness_C10 ==
    /\ platform = "win32"
    /\ DirAccepted
    /\ calls[2].res = "OSError"
    /\ dialogs = <<MsgFailed("OSError")>>

\* ------------------------------------------------------------------------
\* _quote_arg applied to tokens over a bounded alphabet, and the same token
\* typed as the prompt so that the preview renders it.
\* ------------------------------------------------------------------------
\* Longest token handed to _quote_arg.
MaxTokenLen == 2

TokenAlphabet ==
    {"a", " ", "\t", "\n", "\r", "'", "\"", "\\", "&", "|", "<", ">", "^", "$"}

Tokens == UNION {[1..n -> TokenAlphabet] : n \in 0..MaxTokenLen}

\* self._quote_arg(arg)
QuoteArgCall ==
    /\ quoted' = QuoteArg(token, platform)
    /\ UNCHANGED <<platform, formVars, cmd, command_preview, clipboard, edits,
                   launchVars, token>>

InitQuote ==
    /\ platform \in Platforms
    /\ \E found \in FoundPaths, safe \in SafeDirs :
        tkvars = InitTkvars(found, safe)
    /\ texts = InitTexts
    /\ plugin_dirs = <<>>
    /\ add_dirs = <<>>
    /\ plugin_listbox = plugin_dirs
    /\ add_dir_listbox = add_dirs
    /\ cmd = BuildCommand(tkvars, texts, plugin_dirs, add_dirs)
    /\ command_preview = GetCommandString(cmd, platform)
    /\ clipboard = <<>>
    /\ edits = 0
    /\ launches = 0
    /\ calls = <<>>
    /\ dialogs = <<>>
    /\ script_exists = FALSE
    /\ script_content = <<>>
    /\ fd_open = FALSE
    /\ script_trace = <<>>
    /\ token \in Tokens
    /\ quoted = <<>>

\* The token is quoted, or typed into the prompt Entry.
NextQuote ==
    \/ QuoteArgCall
    \/ KeyRelease("prompt_var", token)

SpecQuote == InitQuote /\ [][NextQuote]_vars

\* ------------------------------------------------------------------------
\* Reading a rendering back.
\* ------------------------------------------------------------------------
\* _quote_arg has returned.
Quoted == quoted # <<>>

\* s with a backslash put before each double quote, built from the right.
RECURSIVE BackslashedQuotes(_)
BackslashedQuotes(s) ==
    IF s = <<>> THEN <<>>
    ELSE LET front == SubSeq(s, 1, Len(s) - 1)
             last == s[Len(s)]
         IN  BackslashedQuotes(front)
             \o (IF last = "\"" THEN <<"\\", "\"">> ELSE <<last>>)

InDoubleQuotes(s) == <<"\"">> \o BackslashedQuotes(s) \o <<"\"">>

WinMetaChars == {"&", "|", "<", ">", "^"}

\* The renderings of the tokens of c with one space between neighbours,
\* built from the right.
RECURSIVE SpaceJoined(_, _)
SpaceJoined(c, plat) ==
    IF c = <<>> THEN <<>>
    ELSE IF Len(c) = 1 THEN QuoteArg(c[1], plat)
    ELSE SpaceJoined(SubSeq(c, 1, Len(c) - 1), plat)
         \o <<" ">> \o QuoteArg(c[Len(c)], plat)

\* The empty-token rule and the preview rule, common to both readings of C11.
EmptyAndPreviewRule ==
    /\ (Quoted /\ token = <<>>) =>
            quoted = (IF platform = "win32" THEN <<"\"", "\"">> ELSE <<"'", "'">>)
    /\ command_preview = SpaceJoined(cmd, platform)
    /\ cmd = BuildCommand(tkvars, texts, plugin_dirs, add_dirs)

\* The win32 rule for a non-empty token, given the characters that call for
\* double quotes.
WinRule(trigger) ==
    (Quoted /\ platform = "win32" /\ token # <<>>) =>
        quoted = (IF Chars(token) \cap trigger # {} THEN InDoubleQuotes(token) ELSE token)

\* ------------------------------------------------------------------------
\* C11 as stated: the empty token renders as '' or "", on win32 a token with
\* whitespace, a double quote or one of & | < > ^ is put in double quotes
\* with its double quotes escaped and any other token is unchanged, and the
\* preview is the renderings joined by single spaces in vector order.
\* ------------------------------------------------------------------------
Counterexample_C11 ==
    /\ EmptyAndPreviewRule
    /\ WinRule({c \in TokenAlphabet : IsSpace(c)} \cup {"\""} \cup WinMetaChars)

\* ------------------------------------------------------------------------
\* C11 amended: as stated, with the whitespace that calls for double quotes
\* on win32 being the space, the tab and the newline.
\* ------------------------------------------------------------------------
Theorem_C11 ==
    /\ EmptyAndPreviewRule
    /\ WinRule({" ", "\t", "\n"} \cup {"\""} \cup WinMetaChars)

\* A token with a blank and a double quote, quoted on win32 and typed as the
\* prompt.
Witness_C11 ==
    /\ platform = "win32"
    /\ token = <<" ", "\"">>
    /\ quoted = <<"\"", " ", "\\", "\"", "\"">>
    /\ tkvars.prompt_var = token
    /\ cmd[Len(cmd)] = token
    /\ edits = 1

\* ------------------------------------------------------------------------
\* The argument rules of the two platforms, applied to a rendering.  The
\* result is the list of arguments read, or ok = FALSE when the text is not
\* a list of plain words (an open quote, or a character the shell acts on).
\* ------------------------------------------------------------------------
ParseFailed == [ok |-> FALSE, words |-> <<>>]

\* Characters the POSIX shell acts on outside quotes, and inside double
\* quotes.
ShOperators == {"&", "|", "<", ">", "$", "\n"}
ShDoubleQuoteActive == {"$"}
ShDoubleQuoteEscapable == {"$", "\"", "\\", "\n"}

\* POSIX shell word reading from position i on; mode is "u" (unquoted),
\* "s" (in single quotes) or "d" (in double quotes), cur the word being
\* read and have whether a word has begun.
RECURSIVE ShParse(_, _, _, _, _, _)
ShParse(s, i, mode, cur, have, words) ==
    IF i > Len(s)
    THEN IF mode # "u" THEN ParseFailed
         ELSE [ok |-> TRUE, words |-> IF have THEN Append(words, cur) ELSE words]
    ELSE LET c == s[i]
         IN  IF mode = "s"
             THEN IF c = "'" THEN ShParse(s, i + 1, "u", cur, TRUE, words)
                  ELSE ShParse(s, i + 1, "s", Append(cur, c), TRUE, words)
             ELSE IF mode = "d"
             THEN IF c = "\"" THEN ShParse(s, i + 1, "u", cur, TRUE, words)
                  ELSE IF c \in ShDoubleQuoteActive THEN ParseFailed
                  ELSE IF c = "\\" /\ i < Len(s) /\ s[i + 1] \in ShDoubleQuoteEscapable
                  THEN ShParse(s, i + 2, "d",
                               IF s[i + 1] = "\n" THEN cur ELSE Append(cur, s[i + 1]),
                               TRUE, words)
                  ELSE ShParse(s, i + 1, "d", Append(cur, c), TRUE, words)
             ELSE IF c = "'" THEN ShParse(s, i + 1, "s", cur, TRUE, words)
             ELSE IF c = "\"" THEN ShParse(s, i + 1, "d", cur, TRUE, words)
             ELSE IF c = "\\"
             THEN IF i = Len(s) THEN ParseFailed
                  ELSE IF s[i + 1] = "\n" THEN ShParse(s, i + 2, "u", cur, have, words)
                  ELSE ShParse(s, i + 2, "u", Append(cur, s[i + 1]), TRUE, words)
             ELSE IF c \in {" ", "\t"}
             THEN ShParse(s, i + 1, "u", <<>>, FALSE,
                          IF have THEN Append(words, cur) ELSE words)
             ELSE IF c \in ShOperators THEN ParseFailed
             ELSE ShParse(s, i + 1, "u", Append(cur, c), TRUE, words)

\* The number of backslashes of s from position i on.
RECURSIVE BackslashRun(_, _)
BackslashRun(s, i) ==
    IF i <= Len(s) /\ s[i] = "\\" THEN 1 + BackslashRun(s, i + 1) ELSE 0

Backslashes(n) == [k \in 1..n |-> "\\"]

\* The Windows argument rules: blanks and tabs separate arguments outside
\* double quotes; 2n backslashes before a double quote give n backslashes and
\* the quote opens or closes a quoted part; 2n+1 backslashes before a double
\* quote give n backslashes and a literal double quote; other backslashes
\* stand for themselves.
RECURSIVE WinParse(_, _, _, _, _, _)
WinParse(s, i, inq, cur, have, words) ==
    IF i > Len(s)
    THEN IF inq THEN ParseFailed
         ELSE [ok |-> TRUE, words |-> IF have THEN Append(words, cur) ELSE words]
    ELSE LET c == s[i]
             n == BackslashRun(s, i)
         IN  IF c = "\\"
             THEN IF i + n <= Len(s) /\ s[i + n] = "\""
                  THEN IF n % 2 = 0
                       THEN WinParse(s, i + n + 1, ~inq,
                                     cur \o Backslashes(n \div 2), TRUE, words)
                       ELSE WinParse(s, i + n + 1, inq,
                                     cur \o Backslashes(n \div 2) \o <<"\"">>,
                                     TRUE, words)
                  ELSE WinParse(s, i + n, inq, cur \o Backslashes(n), TRUE, words)
             ELSE IF c = "\"" THEN WinParse(s, i + 1, ~inq, cur, TRUE, words)
             ELSE IF ~inq /\ c \in {" ", "\t"}
             THEN WinParse(s, i + 1, inq, <<>>, FALSE,
                           IF have THEN Append(words, cur) ELSE words)
             ELSE WinParse(s, i + 1, inq, Append(cur, c), TRUE, words)

\* The arguments a platform's rules read from a rendering.
ParseArgs(s, plat) ==
    IF plat = "win32" THEN WinParse(s, 1, FALSE, <<>>, FALSE, <<>>)
    ELSE ShParse(s, 1, "u", <<>>, FALSE, <<>>)

RoundTrips(tok, out, plat) == ParseArgs(out, plat) = [ok |-> TRUE, words |-> <<tok>>]

\* ------------------------------------------------------------------------
\* C12: on either platform, reading the rendering of a token back with that
\* platform's argument rules gives exactly the token, for every token over
\* the alphabet and for the empty token.
\* ------------------------------------------------------------------------
Counterexample_C12 ==
    Quoted => RoundTrips(token, quoted, platform)

\* The POSIX half of the round trip.
PosixRoundTrips ==
    (Quoted /\ platform # "win32") => RoundTrips(token, quoted, platform)

\* ------------------------------------------------------------------------
\* C13: with the tools field left empty no --tools is emitted, and with the
\* field set to the empty marker "" (the marker the Tools tab tells the user
\* to type) --tools is emitted once, followed by an empty-string value.
\* ------------------------------------------------------------------------
Counterexample_C13 ==
    LET pos == CmdFlagPositions
    IN  /\ texts.tools_text = <<>> => FlagCount(pos, Flag_tools) = 0
        /\ StrippedText("tools_text") = T_quotes =>
              /\ FlagCount(pos, Flag_tools) = 1
              /\ ValuesAt(pos, Flag_tools) = << <<>> >>

\* The Launch handler has run.
Launched == calls # <<>>

LaunchedShown == \E i \in 1..Len(dialogs) : dialogs[i] = MsgLaunched
ErrorShown == \E i \in 1..Len(dialogs) : dialogs[i].kind = "showerror"

\* The fallback's direct spawn of the raw vector succeeded.
FellBackToBackground ==
    NoTerminalFallback /\ \E i \in RawSpawns : calls[i].res = "ok"

\* ------------------------------------------------------------------------
\* C14: a launch tells the user one outcome only: a launch that fell back to
\* the background shows the background notice and not the launched-in-a-new-
\* window notice, and a launch that shows an error does not show the
\* launched notice.
\* ------------------------------------------------------------------------
Counterexample_C14 ==
    Launched =>
        /\ Len(dialogs) = 1
        /\ FellBackToBackground => (BackgroundShown /\ ~LaunchedShown)
        /\ ErrorShown => ~LaunchedShown

\* The launchers list of the host, and the shutil.which calls of the launch
\* in the order made.
HostLaunchers == Launchers(platform, S_script_path)
WhichCalls == SelectSeq(calls, LAMBDA r : r.op = "which")
StartedSpawns == {i \in CallsOf("Popen") : calls[i].res = "ok"}

\* ------------------------------------------------------------------------
\* C15: in a POSIX launch the launchers are looked up in list order, each
\* once; a launcher is spawned only right after its own successful lookup,
\* so one that does not resolve is skipped without a spawn; the first
\* launcher that starts ends the launch with the launched notice, no later
\* launcher being looked up and the raw vector not being spawned; at most
\* one process is started.
\* ------------------------------------------------------------------------
Theorem_C15 ==
    (platform # "win32" /\ Staged) =>
        /\ \A a, b \in 1..Len(HostLaunchers) :
              HostLaunchers[a][1] = HostLaunchers[b][1] => a = b
        /\ Len(WhichCalls) <= Len(HostLaunchers)
        /\ \A j \in 1..Len(WhichCalls) : WhichCalls[j].argv = <<HostLaunchers[j][1]>>
        /\ ~LauncherStarted => Len(WhichCalls) = Len(HostLaunchers)
        /\ \A i \in LauncherSpawns :
              /\ calls[i - 1].op = "which"
              /\ calls[i - 1].res = "ok"
              /\ calls[i - 1].argv = <<calls[i].argv[1]>>
              /\ \E j \in 1..Len(HostLaunchers) : calls[i].argv = HostLaunchers[j]
        /\ \A i \in CallsOf("which") :
              calls[i].res = "None" => (i = Len(calls) \/ calls[i + 1].op # "Popen"
                                        \/ calls[i + 1].target # "launcher")
        /\ \A i \in LauncherSpawns :
              calls[i].res = "ok" =>
                  (i = Len(calls) /\ RawSpawns = {} /\ dialogs = <<MsgLaunched>>)
        /\ Cardinality(StartedSpawns) <= 1

\* The first launcher does not resolve, the second fails to spawn and the
\* third starts.
Witness_C15 ==
    /\ platform = "linux"
    /\ Staged
    /\ Len(WhichCalls) = 3
    /\ WhichCalls[1].res = "None"
    /\ Cardinality(LauncherSpawns) = 2
    /\ \E i \in LauncherSpawns : calls[i].res = "OSError" /\ calls[i].argv[1] = L_gnome_terminal
    /\ calls[Len(calls)].op = "Popen"
    /\ calls[Len(calls)].res = "ok"
    /\ calls[Len(calls)].argv[1] = L_xterm
    /\ dialogs = <<MsgLaunched>>

\* The first shutil.which of the launch is for osascript.
OsascriptFirst == WhichCalls # <<>> /\ WhichCalls[1].argv = <<L_osascript>>
OsascriptProbed == \E j \in 1..Len(WhichCalls) : WhichCalls[j].argv = <<L_osascript>>

\* osascript was looked up and did not start, and a terminal emulator was
\* looked up after it.
FellThroughOsascript ==
    /\ OsascriptFirst
    /\ Len(WhichCalls) >= 2
    /\ \A i \in LauncherSpawns : calls[i].argv[1] = L_osascript => calls[i].res # "ok"

\* ------------------------------------------------------------------------
\* C16 as stated: on every POSIX launch that stages its script, osascript is
\* the first launcher tried, whatever the platform.
\* ------------------------------------------------------------------------
Counterexample_C16 ==
    (platform # "win32" /\ Staged) => OsascriptFirst

\* ------------------------------------------------------------------------
\* C16 amended: on darwin osascript is the first launcher tried, before any
\* terminal emulator, and when it does not start the probe goes on to
\* x-terminal-emulator; on any other POSIX platform osascript is not tried
\* at all and x-terminal-emulator is the first launcher tried.
\* ------------------------------------------------------------------------
Theorem_C16 ==
    (platform # "win32" /\ Staged) =>
        /\ WhichCalls # <<>>
        /\ platform = "darwin" =>
              /\ OsascriptFirst
              /\ (\A i \in LauncherSpawns :
                      calls[i].argv[1] = L_osascript => calls[i].res # "ok")
                 => (Len(WhichCalls) >= 2
                     /\ WhichCalls[2].argv = <<L_x_terminal_emulator>>)
        /\ platform # "darwin" =>
              /\ ~OsascriptProbed
              /\ WhichCalls[1].argv = <<L_x_terminal_emulator>>

\* On darwin osascript resolves, fails to spawn, and x-terminal-emulator
\* starts.
Witness_C16 ==
    /\ platform = "darwin"
    /\ Staged
    /\ FellThroughOsascript
    /\ \E i \in LauncherSpawns :
          calls[i].argv[1] = L_osascript /\ calls[i].res = "OSError"
    /\ calls[Len(calls)].op = "Popen"
    /\ calls[Len(calls)].argv[1] = L_x_terminal_emulator
    /\ calls[Len(calls)].res = "ok"

\* The fallback's direct spawn of the raw vector raised.
FallbackSpawnFailed ==
    NoTerminalFallback /\ \E i \in RawSpawns : calls[i].res # "ok"

\* ------------------------------------------------------------------------
\* C17: when the direct spawn of the fallback raises, the removal of the
\* staged script is still the last call of the launch (and the script is
\* gone when it succeeds), the only message is the missing-executable error
\* for FileNotFoundError and the failure error carrying the exception
\* otherwise, and the background notice is not shown.
\* ------------------------------------------------------------------------
Theorem_C17 ==
    FallbackSpawnFailed =>
        /\ RawSpawns = {Len(calls) - 1}
        /\ calls[Len(calls)].op = "remove"
        /\ calls[Len(calls)].target = "script"
        /\ calls[Len(calls)].res = "ok" => ~script_exists
        /\ dialogs = <<IF calls[Len(calls) - 1].res = "FileNotFoundError"
                       THEN MsgNotFound
                       ELSE MsgFailed(calls[Len(calls) - 1].res)>>
        /\ ~BackgroundShown
        /\ ~LaunchedShown

\* No launcher resolves, the executable of the raw vector is missing, and
\* the script is removed.
Witness_C17 ==
    /\ platform = "linux"
    /\ FallbackSpawnFailed
    /\ LauncherSpawns = {}
    /\ calls[Len(calls) - 1].res = "FileNotFoundError"
    /\ calls[Len(calls)].res = "ok"
    /\ ~script_exists
    /\ dialogs = <<MsgNotFound>>

\* A staging step raised: mkstemp, or a step after the creation of the file.
StagingFailed ==
    \/ \E i \in CallsOf("mkstemp") : calls[i].res # "ok"
    \/ StagingFailedAfterCreate

NotFoundShown == \E i \in 1..Len(dialogs) : dialogs[i] = MsgNotFound

\* ------------------------------------------------------------------------
\* C18: a launch whose staging raised shows one error, the launch failure
\* carrying the exception, and never the missing-executable error, whatever
\* the exception was.
\* ------------------------------------------------------------------------
Counterexample_C18 ==
    StagingFailed =>
        /\ Len(dialogs) = 1
        /\ dialogs[1].kind = "showerror"
        /\ dialogs[1].msg = MsgFailed("OSError").msg
        /\ ~NotFoundShown

\* A started terminal emulator was given a command that runs the script and
\* then replaces itself by a shell.
KeepsShellOpen(argv) ==
    LET last == argv[Len(argv)]
        run == L_sh_sp \o ShlexQuote(S_script_path)
    IN  \/ last = run \o <<";", " ", "e", "x", "e", "c", " ", "s", "h">>
        \/ last = run \o <<";", " ", "e", "x", "e", "c", " ", "b", "a", "s", "h">>

\* ------------------------------------------------------------------------
\* C19: every terminal emulator that the launch spawns is given a command
\* that runs the staged script and then keeps a shell open.
\* ------------------------------------------------------------------------
Counterexample_C19 ==
    \A i \in LauncherSpawns :
        calls[i].argv[1] # L_osascript => KeepsShellOpen(calls[i].argv)

\* A directory list and the rows of its list box: no path twice, no empty
\* path, and the rows are the list.
DirListOk(dirs, listbox) ==
    /\ \A i, j \in 1..Len(dirs) : dirs[i] = dirs[j] => i = j
    /\ \A i \in 1..Len(dirs) : dirs[i] # <<>>
    /\ listbox = dirs

\* One step on a directory list: nothing, one new non-empty path at the end,
\* the entry at one index removed, or everything removed.
DirListStep(old, new) ==
    \/ new = old
    \/ /\ Len(new) = Len(old) + 1
       /\ SubSeq(new, 1, Len(old)) = old
       /\ new[Len(new)] # <<>>
       /\ \A i \in 1..Len(old) : old[i] # new[Len(new)]
    \/ \E i \in 1..Len(old) :
          new = [k \in 1..(Len(old) - 1) |-> IF k < i THEN old[k] ELSE old[k + 1]]
    \/ new = <<>>

\* ------------------------------------------------------------------------
\* C20: the plugin-directory and extra-directory lists never hold a path
\* twice or an empty path and always equal the rows of their list boxes;
\* each step leaves a list as it was, appends one new path at its end,
\* removes the entry at one index (from list and rows alike) or empties it,
\* so the surviving entries keep their order.
\* ------------------------------------------------------------------------
Theorem_C20 ==
    /\ [](/\ DirListOk(plugin_dirs, plugin_listbox)
          /\ DirListOk(add_dirs, add_dir_listbox))
    /\ [][/\ DirListStep(plugin_dirs, plugin_dirs')
          /\ DirListStep(add_dirs, add_dirs')
          /\ IsSubsequence(SubSeq(plugin_dirs', 1, Len(plugin_dirs') - 1), plugin_dirs)
             \/ IsSubsequence(plugin_dirs', plugin_dirs)
          /\ IsSubsequence(SubSeq(add_dirs', 1, Len(add_dirs') - 1), add_dirs)
             \/ IsSubsequence(add_dirs', add_dirs)]_vars

\* The first of two plugin directories has been removed, and the extra
\* directories are untouched.
Witness_C20 ==
    /\ edits = 1
    /\ plugin_dirs = <<P2>>
    /\ plugin_listbox = <<P2>>
    /\ add_dirs = <<P2, P1>>
    /\ add_dir_listbox = <<P2, P1>>

\* ------------------------------------------------------------------------
\* C21 helpers: the state of the script once a terminal has been started.
\* ------------------------------------------------------------------------
ScriptRan == script_trace # <<>>
RemoveScriptArgv == <<W_rm, W_f, S_script_path>>
LastRun == script_trace[Len(script_trace)]
\* The started spawn is the last call of the launch: every staging call
\* precedes it and the launcher touches the script no more.
StartIsLastCall == \A i \in LauncherSpawns : calls[i].res = "ok" => i = Len(calls)

\* ------------------------------------------------------------------------
\* C21: once a terminal has been started the launcher neither removes nor
\* rewrites the staged script, which is there with the content written once
\* until the terminal runs it; and when the script has run, the last command
\* it ran is the removal of its own path, whether the change of directory or
\* the command failed or not, so that the file is gone when that removal
\* succeeded.
\* ------------------------------------------------------------------------
Theorem_C21 ==
    /\ LauncherStarted =>
          /\ CallsOf("remove") = {}
          /\ Cardinality(CallsOf("write")) = 1
          /\ StartIsLastCall
          /\ \E wd \in LaunchDirs :
                script_content = ScriptContent(cmd, wd, S_script_path)
          /\ ~ScriptRan => script_exists
    /\ ScriptRan =>
          /\ LauncherStarted
          /\ \E wd \in LaunchDirs : script_trace[1].argv = <<W_cd, wd>>
          /\ Len(script_trace) = IF script_trace[1].ok THEN 3 ELSE 2
          /\ script_trace[1].ok => script_trace[2].argv = cmd
          /\ LastRun.argv = RemoveScriptArgv
          /\ script_exists = ~LastRun.ok

\* The terminal ran a script whose command failed, with an argument that
\* holds a quote and a space and a system prompt that holds a newline, and
\* the script removed itself.
Witness_C21 ==
    /\ ScriptRan
    /\ Len(script_trace) = 3
    /\ ~script_trace[2].ok
    /\ script_trace[2].argv = BuildCommand(tkvars, texts, plugin_dirs, add_dirs)
    /\ tkvars.prompt_var = S_its_a
    /\ LastRun.ok
    /\ ~script_exists
    /\ CallsOf("remove") = {}

\* ------------------------------------------------------------------------
\* C22 helpers: the vector of the form, and the staged script as sh reads it.
\* ------------------------------------------------------------------------
FormCommand == BuildCommand(tkvars, texts, plugin_dirs, add_dirs)
ScriptLines == ShLex(script_content)
Word(text) == [op |-> FALSE, text |-> text]
\* The line sh reads for `cd <dir> && <vector>`.
CdThenCommand(wd, c) ==
    <<Word(W_cd), Word(wd), [op |-> TRUE, text |-> <<"&", "&">>]>>
    \o [i \in 1..Len(c) |-> Word(c[i])]

\* ------------------------------------------------------------------------
\* C22: a launch whose working directory was accepted spawns the vector
\* built from the form as it is at the launch: every direct spawn has it as
\* its argv, and a staged script holds, after the #! line, the text "cd ",
\* the quoted working directory, " && " and then exactly the string the
\* preview and the clipboard show for that form, followed by the removal
\* line; read by sh, that line is the cd and the words of the vector.
\* ------------------------------------------------------------------------
Theorem_C22 ==
    (Launched /\ DirAccepted) =>
        /\ cmd = FormCommand
        /\ \A i \in RawSpawns : calls[i].argv = FormCommand
        /\ (platform = "win32") => RawSpawns # {}
        /\ (platform # "win32" /\ Staged) =>
              \E wd \in LaunchDirs :
                 /\ script_content =
                       L_shebang \o L_cd \o ShlexQuote(wd) \o L_and
                       \o GetCommandString(FormCommand, platform) \o <<"\n">>
                       \o L_rm \o ShlexQuote(S_script_path) \o <<"\n">>
                 /\ GetCommandString(FormCommand, platform) = command_preview
                 /\ ScriptLines.ok
                 /\ ScriptLines.lines[1] = CdThenCommand(wd, FormCommand)

\* A script was staged and handed to a terminal for a form whose prompt
\* needs quoting, so that the preview is not the plain join of the vector.
Witness_C22 ==
    /\ platform = "linux"
    /\ Staged
    /\ LauncherStarted
    /\ tkvars.prompt_var = S_its_a
    /\ cmd = FormCommand
    /\ command_preview # Join(S_space, cmd)
    /\ ScriptLines.ok
    /\ Len(ScriptLines.lines) = 2

====
